---- MODULE Spec2Model ----
(***************************************************************************)
(* Factory fleet health monitor (MMS).                                     *)
(*                                                                         *)
(* The module models, from the Python sources under src/src/mms/src:       *)
(*   - SensorHealthMonitor (monitoring/sensor_health_monitor.py) and the   *)
(*     Kafka handlers that feed it (monitoring/kafka_listener.py);         *)
(*   - SensorMonitor (monitoring/sensor_monitor.py), the reading-driven    *)
(*     sensor store with the factory health aggregation;                   *)
(*   - RiskPredictor.predict_factory_risk (predictive/risk_predictor.py).  *)
(*                                                                         *)
(* Time is the UTC wall clock in whole seconds.  A Python datetime is a    *)
(* record [t, aware]: t is the instant, aware tells whether the value      *)
(* carries a UTC offset (datetime.fromisoformat of a string with an        *)
(* offset) or is naive (datetime.utcnow()).  Python refuses to subtract a  *)
(* naive and an aware datetime (TypeError).                                *)
(*                                                                         *)
(* Optional values: None is <<>> and a present value v is <<v>>.           *)
(***************************************************************************)
EXTENDS Integers, Sequences, FiniteSets, TLC

VARIABLES
    now,                \* datetime.utcnow(), seconds
    sensors,            \* SensorHealthMonitor._sensors: sensor_id -> SensorHealth
    sensors_order,      \* insertion order of the keys of _sensors (dict order)
    factory_sensors,    \* SensorHealthMonitor._factory_sensors (defaultdict(set))
    failed_sensors,     \* SensorHealthMonitor._failed_sensors
    sensor_risk_tracking, \* RiskPredictor._sensor_risk_tracking: sensor_id -> tracker
    risk_history,       \* RiskPredictor._risk_history: factory_id -> assessments
    factory_statuses,   \* FactoryStatusManager._factories: factory_id -> current status
    last_reading_times, \* SensorMonitor._last_reading_times: sensor_id -> seconds
    sensor_statuses,    \* SensorMonitor._sensor_statuses: sensor_id -> SensorStatus
    sm_factory_sensors, \* SensorMonitor._factory_sensors: factory_id -> set
    sm_factory_order,   \* insertion order of the keys of SensorMonitor._factory_sensors
    manual_failures,    \* SensorMonitor._manual_failures: sensor_id -> recovery time
    previous_factory_statuses, \* SensorMonitor._previous_factory_statuses
    calls               \* what the last operation called: the factory-status-
                        \* change callbacks, the sensor-failed callbacks,
                        \* mongodb_client.update_factory_health and
                        \* mongodb_client.update_factory_status; and what
                        \* should_preemptively_rebalance returned; and the
                        \* invocations of the failover and recovery
                        \* callbacks; and the status transitions it made
                        \* (what transition_to hands to its callbacks); and what
                        \* a transition_to returned, with the transition
                        \* callbacks it called
VARIABLES
    bus,                \* the records of the subscribed topics, in poll order
    offset,             \* how many of them the consumer loop has taken
    at_risk_topic       \* the notifications produced to factory.sensor-at-risk
VARIABLES
    factory_order,      \* insertion order of the keys of FactoryStatusManager._factories
    restart_threads,    \* the restart handlers running on the MQTT callback
                        \* thread and on the Kafka consumer loop: thread -> frame
    tasks,              \* the trigger_failover / preemptive_rebalance coroutines
                        \* of the event loop: task -> frame
    running,            \* the task the event loop is running (None: none)
    active_failovers,   \* FailoverManager._active_failovers
    on_failover_callbacks, \* FailoverManager._on_failover_callbacks
    failover_events,    \* the persisted failover_events collection
    pms_status          \* the status PMS has accepted last, per factory
VARIABLES
    factory_health,     \* the persisted factory_health documents, as
                        \* update_factory_status and the counter operations
                        \* leave them: factory_id -> [status,
                        \* consecutive_healthy, missed_heartbeats]
    last_heartbeat_times, \* HeartbeatMonitor._last_heartbeat_times
    recovering_factories, \* RecoveryManager._recovering_factories
    on_recovery_callbacks \* RecoveryManager._on_recovery_callbacks
VARIABLES
    shutdown_event,     \* main.shutdown_event is set
    loop_tasks,         \* the long-running coroutines: consume_loop and
                        \* monitoring_loop of main.py, and
                        \* FactoryKafkaListener.start: name -> frame
    kafka_clients       \* the Kafka consumer objects of these loops:
                        \* name -> [running, closed]

VARIABLES
    transition_history, \* FactoryStatusStateMachine._transition_history of each
                        \* state machine: factory_id -> StatusTransitions
    on_transition_callbacks, \* FactoryStatusStateMachine._on_transition_callbacks:
                        \* factory_id -> callbacks
    global_callbacks    \* FactoryStatusManager._global_callbacks

healthVars == <<sensors, sensors_order, factory_sensors, failed_sensors>>
monitorVars == <<last_reading_times, sensor_statuses, sm_factory_sensors,
                 sm_factory_order, manual_failures, previous_factory_statuses, calls>>

riskVars == <<sensor_risk_tracking, risk_history, factory_statuses, factory_order>>
orchVars == <<restart_threads, tasks, running, active_failovers,
              on_failover_callbacks, failover_events, pms_status>>

recVars == <<factory_health, last_heartbeat_times, recovering_factories,
             on_recovery_callbacks>>
loopVars == <<shutdown_event, loop_tasks, kafka_clients>>
\* The history and the callbacks of the state machines are followed in
\* SpecStatus; the other specifications follow the current status only.
statusVars == <<transition_history, on_transition_callbacks, global_callbacks>>

busPos == <<bus, offset>>
busVars == <<bus, offset, at_risk_topic>>

vars == <<now, healthVars, riskVars, monitorVars, busVars, orchVars, recVars,
         loopVars, statusVars>>

-----------------------------------------------------------------------------
(* Bounds of the model *)

NumSensors == 2
NumFactories == 2
MaxTime == 20
MaxTimeSM == 10
MaxTimeStores == 15
MaxHistory == 1
MaxTotal == 20
MaxBus == 6
MaxTasks == 2
MaxCallbacks == 2
NumBackupFactories == 3
MaxTimeHeartbeat == 6
MaxMissed == 4
MaxCalls == 4
MaxRaw == 2
MaxTimeLegacy == 15
MaxTransitions == 2
MaxTimeStatus == 1

SensorIds == 1..NumSensors
FactoryIds == 1..NumFactories

\* A missing (or empty) sensorId / factoryId of a payload: falsy in Python.
MissingId == 0

-----------------------------------------------------------------------------
(* Optional values and datetimes *)

None == <<>>
Some(x) == <<x>>
Val(o) == o[1]

\* dict.get(k) / dict.get(k, default) as optional values
Get(d, k) == IF k \in DOMAIN d THEN Some(d[k]) ELSE None
GetOr(d, k, default) == IF k \in DOMAIN d THEN d[k] ELSE default

\* d[k] = v
Put(d, k, v) == IF k \in DOMAIN d THEN [d EXCEPT ![k] = v] ELSE d @@ (k :> v)

\* del d[k]
Del(d, k) == [x \in DOMAIN d \ {k} |-> d[x]]

Naive(t) == [t |-> t, aware |-> FALSE]
Aware(t) == [t |-> t, aware |-> TRUE]

-----------------------------------------------------------------------------
(* SensorHealthMonitor *)

\* SensorHealthMonitor.__init__(heartbeat_timeout_seconds = 10)
heartbeat_timeout == 10

SensorHealth(sensor_id, factory_id, tier) ==
    [sensor_id |-> sensor_id, factory_id |-> factory_id, tier |-> tier,
     last_heartbeat |-> None, is_healthy |-> TRUE,
     failure_reason |-> None, failure_timestamp |-> None]

\* The monitor's fields as one value, so that the methods are operators on it.
Store == [sensors |-> sensors, order |-> sensors_order,
          factory_sensors |-> factory_sensors, failed |-> failed_sensors]

\* defaultdict(set): d[k].add(x)
DefaultAdd(d, k, x) ==
    IF k \in DOMAIN d THEN [d EXCEPT ![k] = @ \cup {x}] ELSE d @@ (k :> {x})

\* dict.get(k, set())
GetSet(d, k) == IF k \in DOMAIN d THEN d[k] ELSE {}

register_sensor(st, sensor_id, factory_id, tier) ==
    IF sensor_id \in DOMAIN st.sensors
    THEN st
    ELSE [st EXCEPT
            !.sensors = @ @@ (sensor_id :> SensorHealth(sensor_id, factory_id, tier)),
            !.order = Append(@, sensor_id),
            !.factory_sensors = DefaultAdd(@, factory_id, sensor_id)]

\* A heartbeat handler that would also bring a FAILED sensor back.
process_heartbeat_recovering(st, sensor_id, factory_id, tier, timestamp, clock) ==
    LET ts == IF timestamp = None THEN Naive(clock) ELSE Val(timestamp)
        st1 == register_sensor(st, sensor_id, factory_id, tier)
    IN  [st1 EXCEPT !.sensors[sensor_id].last_heartbeat = Some(ts),
                    !.sensors[sensor_id].is_healthy = TRUE,
                    !.failed = @ \ {sensor_id}]

\* timestamp is an optional datetime; None stands for "use utcnow()".
process_heartbeat(st, sensor_id, factory_id, tier, timestamp, clock) ==
    LET ts == IF timestamp = None THEN Naive(clock) ELSE Val(timestamp)
        st1 == register_sensor(st, sensor_id, factory_id, tier)
    IN  [st1 EXCEPT !.sensors[sensor_id].last_heartbeat = Some(ts)]

\* reason is an optional string: the handlers pass whatever the payload holds.
mark_sensor_failed(st, sensor_id, reason, clock) ==
    IF sensor_id \notin DOMAIN st.sensors
    THEN st
    ELSE IF st.sensors[sensor_id].is_healthy
         THEN [st EXCEPT
                 !.sensors[sensor_id].is_healthy = FALSE,
                 !.sensors[sensor_id].failure_reason = reason,
                 !.sensors[sensor_id].failure_timestamp = Some(Naive(clock)),
                 !.failed = @ \cup {sensor_id}]
         ELSE st

\* f"Heartbeat timeout ({secs:.1f}s)" for a whole number of seconds
TimeoutReason(secs) == "Heartbeat timeout (" \o ToString(secs) \o ".0s)"

\* The loop of check_timeouts from the i-th key of _sensors on.  The result
\* tells the store, the list returned and whether the call raised: the
\* subtraction now - last_heartbeat raises TypeError for an aware
\* last_heartbeat, which ends the scan where it stands.
RECURSIVE check_timeouts_from(_, _, _, _)
check_timeouts_from(st, i, timed_out, clock) ==
    IF i > Len(st.order)
    THEN [st |-> st, ret |-> timed_out, raised |-> FALSE]
    ELSE LET sensor_id == st.order[i]
             sensor == st.sensors[sensor_id]
         IN  IF sensor.last_heartbeat = None
             THEN check_timeouts_from(st, i + 1, timed_out, clock)
             ELSE IF ~sensor.is_healthy
             THEN check_timeouts_from(st, i + 1, timed_out, clock)
             ELSE IF Val(sensor.last_heartbeat).aware
             THEN [st |-> st, ret |-> <<>>, raised |-> TRUE]
             ELSE LET time_since_heartbeat == clock - Val(sensor.last_heartbeat).t
                  IN  IF time_since_heartbeat > heartbeat_timeout
                      THEN check_timeouts_from(
                               mark_sensor_failed(st, sensor_id,
                                   Some(TimeoutReason(time_since_heartbeat)), clock),
                               i + 1, Append(timed_out, sensor_id), clock)
                      ELSE check_timeouts_from(st, i + 1, timed_out, clock)

check_timeouts(st, clock) == check_timeouts_from(st, 1, <<>>, clock)

\* The loop of recover_factory_sensors from the i-th listed id on.
RECURSIVE recover_from(_, _, _, _)
recover_from(st, recovered_sensors, i, recovered_count) ==
    IF i > Len(recovered_sensors)
    THEN [st |-> st, count |-> recovered_count]
    ELSE LET sensor_id == recovered_sensors[i]
         IN  IF sensor_id \in DOMAIN st.sensors /\ ~st.sensors[sensor_id].is_healthy
             THEN recover_from(
                      [st EXCEPT
                         !.sensors[sensor_id].is_healthy = TRUE,
                         !.sensors[sensor_id].failure_reason = None,
                         !.sensors[sensor_id].failure_timestamp = None,
                         !.failed = @ \ {sensor_id}],
                      recovered_sensors, i + 1, recovered_count + 1)
             ELSE recover_from(st, recovered_sensors, i + 1, recovered_count)

\* factory_id is used for the log line only.
recover_factory_sensors(st, factory_id, recovered_sensors) ==
    recover_from(st, recovered_sensors, 1, 0)

-----------------------------------------------------------------------------
(* Bus payloads (decoded JSON objects) *)

MaxListed == 2

\* All lists over S with at most n elements.
BoundedSeq(S, n) == UNION {[1..k -> S] : k \in 0..n}

\* The 'timestamp' field: a string that is ISO-8601 (with or without a
\* trailing Z) or one that does not parse (or no string at all).
IsoString(t, z) == [valid |-> TRUE, t |-> t, z |-> z]
BadString == [valid |-> FALSE, t |-> 0, z |-> FALSE]

\* A payload without 'timestamp': payload.get('timestamp') is None, and
\* None.replace raises the AttributeError of the handlers' fallback.
NoTimestamp == [valid |-> FALSE, t |-> 0, z |-> FALSE, present |-> FALSE]

\* The 'reason' field: absent from the object, JSON null, or a string.
ReasonAbsent == [present |-> FALSE, null |-> FALSE, str |-> ""]
ReasonNull == [present |-> TRUE, null |-> TRUE, str |-> ""]
ReasonStr(str) == [present |-> TRUE, null |-> FALSE, str |-> str]

\* payload.get('reason', 'Unknown'): the default replaces an absent key only.
GetReason(field) ==
    IF ~field.present THEN Some("Unknown")
    ELSE IF field.null THEN None
    ELSE Some(field.str)

\* datetime.fromisoformat(timestamp_str.replace('Z', '+00:00')), with the
\* handlers' fallback to datetime.utcnow() on ValueError / AttributeError.
ParseTimestamp(field, clock) ==
    IF ~field.valid THEN Naive(clock)
    ELSE IF field.z THEN Aware(field.t)
    ELSE Naive(field.t)

\* Heartbeats stamped with the sender's current time, and one of them with
\* the sensor id or the factory id missing.
HeartbeatPayloads(S, F) ==
    LET wellFormed == [sensorId : S, factoryId : F, tier : {"unknown"},
                       timestamp : {IsoString(now, FALSE), IsoString(now, TRUE),
                                    BadString}]
        one == CHOOSE payload \in wellFormed : TRUE
    IN  wellFormed \cup {[one EXCEPT !.sensorId = MissingId],
                         [one EXCEPT !.factoryId = MissingId]}

\* The handler reads factoryId for its log line only.
FailurePayloads(S, F) ==
    [sensorId : S \cup {MissingId}, factoryId : {CHOOSE f \in F : TRUE},
     reason : {ReasonAbsent, ReasonNull, ReasonStr("sensor fault")}]

RestartPayloads(S, F) ==
    [factoryId : F, recoveredSensors : BoundedSeq(S, MaxListed)]

-----------------------------------------------------------------------------
(* Operations on the sensor health store *)

SetStore(st) ==
    /\ sensors' = st.sensors
    /\ sensors_order' = st.order
    /\ factory_sensors' = st.factory_sensors
    /\ failed_sensors' = st.failed

RegisterSensor(S, F) ==
    \E s \in S, f \in F :
        /\ SetStore(register_sensor(Store, s, f, "unknown"))
        /\ UNCHANGED <<now, riskVars, monitorVars, busVars, orchVars,
                       recVars, loopVars, statusVars>>

\* FactoryKafkaListener._handle_heartbeat
handle_heartbeat(payload) ==
    /\ IF payload.sensorId = MissingId \/ payload.factoryId = MissingId
       THEN SetStore(Store)
       ELSE SetStore(process_heartbeat(Store, payload.sensorId,
                payload.factoryId, payload.tier,
                Some(ParseTimestamp(payload.timestamp, now)), now))
    /\ UNCHANGED <<now, riskVars, monitorVars, at_risk_topic, orchVars,
                   recVars, loopVars, statusVars>>

HandleHeartbeat(S, F) ==
    /\ \E payload \in HeartbeatPayloads(S, F) : handle_heartbeat(payload)
    /\ UNCHANGED busPos

\* FactoryKafkaListener._handle_sensor_failure
handle_sensor_failure(payload) ==
    /\ SetStore(mark_sensor_failed(Store, payload.sensorId,
                    GetReason(payload.reason), now))
    /\ UNCHANGED <<now, riskVars, monitorVars, at_risk_topic, orchVars,
                   recVars, loopVars, statusVars>>

HandleSensorFailure(S, F) ==
    /\ \E payload \in FailurePayloads(S, F) : handle_sensor_failure(payload)
    /\ UNCHANGED busPos

\* SensorHealthMonitor.check_timeouts
CheckTimeouts ==
    LET r == check_timeouts(Store, now)
    IN  /\ SetStore(r.st)
        /\ UNCHANGED <<now, riskVars, monitorVars, busVars, orchVars,
                       recVars, loopVars, statusVars>>

\* A restart that would leave the risk trackers of the listed sensors alone.
reset_sensor_risk_none(tracking, ids) == tracking

\* RiskPredictor.reset_sensor_risk for every listed id
reset_sensor_risk_all(tracking, ids) ==
    [s \in DOMAIN tracking \ {ids[i] : i \in DOMAIN ids} |-> tracking[s]]

\* FactoryKafkaListener._handle_factory_restart
handle_factory_restart(payload) ==
    LET r == recover_factory_sensors(Store, payload.factoryId,
                                     payload.recoveredSensors)
    IN  /\ SetStore(r.st)
        /\ sensor_risk_tracking' =
               reset_sensor_risk_all(sensor_risk_tracking, payload.recoveredSensors)
        /\ UNCHANGED <<now, risk_history, factory_statuses, factory_order,
                       monitorVars, at_risk_topic, orchVars,
                       recVars, loopVars, statusVars>>

HandleFactoryRestart(S, F) ==
    /\ \E payload \in RestartPayloads(S, F) : handle_factory_restart(payload)
    /\ UNCHANGED busPos

-----------------------------------------------------------------------------
(* RiskPredictor: the per-sensor at-risk trackers (SensorRiskStatus), and    *)
(* the consumer loop of the Kafka listener that feeds them.                  *)

\* SensorRiskStatus.__init__
SensorRiskStatus(sensor_id, factory_id) ==
    [sensor_id |-> sensor_id, factory_id |-> factory_id,
     low_reading_count |-> 0, recent_readings |-> <<>>, is_at_risk |-> FALSE]

\* A reading of the payload: a JSON number, or a value that Python cannot
\* compare with the threshold (a string).
IsNumber(reading) == reading \in Int

\* add_reading: "Keep only last 5 readings for analysis"
keep_last(readings) ==
    IF Len(readings) > 5 THEN Tail(readings) ELSE readings

\* An add_reading whose latch would follow the count: set at three low
\* readings in a row and dropped again by the next reading that is not low.
add_reading_unlatched(t, reading, threshold) ==
    LET appended == [t EXCEPT !.recent_readings = keep_last(Append(@, reading))]
        count == IF reading < threshold THEN t.low_reading_count + 1 ELSE 0
    IN  IF ~IsNumber(reading)
        THEN [t |-> appended, changed |-> FALSE, raised |-> TRUE]
        ELSE [t |-> [appended EXCEPT !.low_reading_count = count,
                                     !.is_at_risk = (count >= 3)],
              changed |-> (count >= 3 /\ ~t.is_at_risk), raised |-> FALSE]

\* An add_reading that would count a reading equal to the threshold as low.
add_reading_counting_equal(t, reading, threshold) ==
    LET appended == [t EXCEPT !.recent_readings = keep_last(Append(@, reading))]
        count == IF reading <= threshold THEN t.low_reading_count + 1 ELSE 0
        counted == [appended EXCEPT !.low_reading_count = count]
    IN  IF ~IsNumber(reading)
        THEN [t |-> appended, changed |-> FALSE, raised |-> TRUE]
        ELSE IF count >= 3 /\ ~t.is_at_risk
        THEN [t |-> [counted EXCEPT !.is_at_risk = TRUE],
              changed |-> TRUE, raised |-> FALSE]
        ELSE [t |-> counted, changed |-> FALSE, raised |-> FALSE]

\* SensorRiskStatus.add_reading.  The reading is appended before it is
\* compared; comparing a reading that is no number raises TypeError.
add_reading(t, reading, threshold) ==
    LET appended == [t EXCEPT !.recent_readings = keep_last(Append(@, reading))]
        count == IF reading < threshold THEN t.low_reading_count + 1 ELSE 0
        counted == [appended EXCEPT !.low_reading_count = count]
    IN  IF ~IsNumber(reading)
        THEN [t |-> appended, changed |-> FALSE, raised |-> TRUE]
        ELSE IF count >= 3 /\ ~t.is_at_risk
        THEN [t |-> [counted EXCEPT !.is_at_risk = TRUE],
              changed |-> TRUE, raised |-> FALSE]
        ELSE [t |-> counted, changed |-> FALSE, raised |-> FALSE]

\* A track_sensor_reading that would report a sensor whenever it is at risk
\* after the reading, whether or not the reading changed that.
track_sensor_reading_always(tracking, sensor_id, factory_id, reading, threshold) ==
    LET sensor_status == IF sensor_id \in DOMAIN tracking THEN tracking[sensor_id]
                         ELSE SensorRiskStatus(sensor_id, factory_id)
        r == add_reading(sensor_status, reading, threshold)
    IN  [tracking |-> Put(tracking, sensor_id, r.t),
         raised |-> r.raised,
         info |-> IF r.t.is_at_risk
                  THEN Some([sensor_id |-> sensor_id, factory_id |-> factory_id,
                             low_reading_count |-> r.t.low_reading_count,
                             recent_readings |-> r.t.recent_readings,
                             threshold |-> threshold])
                  ELSE None]

\* RiskPredictor.track_sensor_reading: the tracking after the call, the
\* returned information (None unless the sensor has just become at risk)
\* and whether the call raised.
track_sensor_reading(tracking, sensor_id, factory_id, reading, threshold) ==
    LET sensor_status == IF sensor_id \in DOMAIN tracking THEN tracking[sensor_id]
                         ELSE SensorRiskStatus(sensor_id, factory_id)
        r == add_reading(sensor_status, reading, threshold)
    IN  [tracking |-> Put(tracking, sensor_id, r.t),
         raised |-> r.raised,
         info |-> IF r.changed /\ r.t.is_at_risk
                  THEN Some([sensor_id |-> sensor_id, factory_id |-> factory_id,
                             low_reading_count |-> r.t.low_reading_count,
                             recent_readings |-> r.t.recent_readings,
                             threshold |-> threshold])
                  ELSE None]

\* FactoryKafkaListener._handle_sensor_reading.  reading is None when the
\* payload has no reading.  The notification counts as published when it
\* is handed to the producer.
handle_sensor_reading(payload) ==
    LET r == track_sensor_reading(sensor_risk_tracking, payload.sensorId,
                                  payload.factoryId, Val(payload.reading), 70)
    IN  /\ IF \/ payload.sensorId = MissingId \/ payload.factoryId = MissingId
              \/ payload.reading = None
           THEN UNCHANGED <<sensor_risk_tracking, at_risk_topic>>
           ELSE /\ sensor_risk_tracking' = r.tracking
                /\ at_risk_topic' =
                      IF r.info = None THEN at_risk_topic
                      ELSE Append(at_risk_topic,
                               [factoryId |-> payload.factoryId,
                                sensorId |-> payload.sensorId,
                                lowReadingCount |-> Val(r.info).low_reading_count,
                                recentReadings |-> Val(r.info).recent_readings,
                                threshold |-> Val(r.info).threshold])
        /\ UNCHANGED <<now, healthVars, risk_history, factory_statuses,
                       factory_order, monitorVars, orchVars,
                       recVars, loopVars, statusVars>>

\* FactoryKafkaListener.start: one record is polled and routed by its topic
\* (or by the message_type of its value) to its handler.
route(topic, message_type) ==
    IF topic = "factory.heartbeat" \/ message_type = "heartbeat" THEN "heartbeat"
    ELSE IF topic = "factory.readings" \/ message_type = "readings" THEN "readings"
    ELSE IF topic = "factory.sensor-failure" \/ message_type = "sensor-failure"
    THEN "sensor-failure"
    ELSE IF topic = "factory.restart" \/ message_type = "restart" THEN "restart"
    ELSE "unhandled"

\* json.loads(msg.value().decode('utf-8')) and the routing, inside the try
\* of the loop: a value that does not decode raises JSONDecodeError, and a
\* decoded value that is no object has no .get (AttributeError, in the
\* routing or in the handler); both are caught and logged.
decode_and_route(msg) ==
    IF msg.json # "object" THEN "raised"
    ELSE route(msg.topic, msg.message_type)

Consume ==
    /\ offset < Len(bus)
    /\ offset' = offset + 1
    /\ bus' = bus
    /\ LET msg == bus[offset + 1]
           handler == decode_and_route(msg)
       IN  CASE handler = "heartbeat" -> handle_heartbeat(msg.value)
             [] handler = "readings" -> handle_sensor_reading(msg.value)
             [] handler = "sensor-failure" -> handle_sensor_failure(msg.value)
             [] handler = "restart" -> handle_factory_restart(msg.value)
             [] OTHER -> UNCHANGED <<now, healthVars, riskVars, monitorVars,
                                     at_risk_topic, orchVars,
                                     recVars, loopVars, statusVars>>

\* FactoryKafkaListener: connect() has created the consumer and set
\* _running, and start() enters its loop.
ListenerStart ==
    /\ "listener" \notin DOMAIN loop_tasks
    /\ loop_tasks' = Put(loop_tasks, "listener",
                         [pc |-> "poll", bus_error |-> "none", waited |-> 0,
                          reconnected |-> FALSE])
    /\ kafka_clients' = Put(kafka_clients, "listener",
                            [running |-> TRUE, closed |-> FALSE])
    /\ UNCHANGED <<now, healthVars, riskVars, monitorVars, busVars, orchVars,
                   recVars, statusVars, shutdown_event>>

\* FactoryKafkaListener.start: "while self._running" holds and the loop is
\* about to poll.
listener_polls(tasks_, clients) ==
    /\ "listener" \in DOMAIN tasks_
    /\ tasks_["listener"].pc = "poll"
    /\ clients["listener"].running

\* What happens to the loop when poll raises KafkaException: the except
\* clause encloses the while statement.
on_kafka_exception(frame) == [frame EXCEPT !.pc = "stopped", !.bus_error = "raised"]

\* What happens to the loop when poll returns a message whose error() is
\* set and is not the end of a partition: it is logged, and the loop
\* continues with the next poll.
on_message_error(frame) == [frame EXCEPT !.bus_error = "message"]

\* The loop polls a record and handles it.
ListenerConsume ==
    /\ listener_polls(loop_tasks, kafka_clients)
    /\ Consume

\* poll returns None: the loop sleeps 10 ms and polls again.
ListenerIdle ==
    /\ listener_polls(loop_tasks, kafka_clients)
    /\ loop_tasks' = [loop_tasks EXCEPT !["listener"].waited = 10]
    /\ UNCHANGED <<now, healthVars, riskVars, monitorVars, busVars, orchVars,
                   recVars, statusVars, shutdown_event, kafka_clients>>

\* poll reports a bus error, in the message or by raising.
ListenerBusError ==
    /\ listener_polls(loop_tasks, kafka_clients)
    /\ \E raised \in BOOLEAN :
           loop_tasks' = [loop_tasks EXCEPT !["listener"] =
                             IF raised THEN on_kafka_exception(@)
                             ELSE on_message_error(@)]
    /\ UNCHANGED <<now, healthVars, riskVars, monitorVars, busVars, orchVars,
                   recVars, statusVars, shutdown_event, kafka_clients>>

\* FactoryKafkaListener.stop
ListenerStop ==
    /\ "listener" \in DOMAIN kafka_clients
    /\ kafka_clients["listener"].running
    /\ kafka_clients' = [kafka_clients EXCEPT
                            !["listener"] = [running |-> FALSE, closed |-> TRUE]]
    /\ UNCHANGED <<now, healthVars, riskVars, monitorVars, busVars, orchVars,
                   recVars, statusVars, shutdown_event, loop_tasks>>

\* "while self._running" fails and start() returns.
ListenerExit ==
    /\ "listener" \in DOMAIN loop_tasks
    /\ loop_tasks["listener"].pc = "poll"
    /\ ~kafka_clients["listener"].running
    /\ loop_tasks' = [loop_tasks EXCEPT !["listener"].pc = "stopped"]
    /\ UNCHANGED <<now, healthVars, riskVars, monitorVars, busVars, orchVars,
                   recVars, statusVars, shutdown_event, kafka_clients>>

-----------------------------------------------------------------------------
(* The restart handler on two threads.  The MQTT client runs its callbacks   *)
(* on its own network thread (loop_start) while the Kafka listener handles   *)
(* its records on the event loop's thread; both call                          *)
(* recover_factory_sensors and reset_sensor_risk on the same objects with    *)
(* no lock, so the threads interleave between any two statements.            *)

RestartThreads == {"mqtt", "kafka"}

\* The frame of a handler that has reached the i-th listed sensor, in the
\* recovery loop (recovering) or in the loop that resets the trackers.
LoopAt(frame, i, recovering) ==
    IF i <= Len(frame.payload.recoveredSensors)
    THEN [frame EXCEPT !.i = i,
                       !.pc = IF recovering THEN "in_sensors" ELSE "in_tracking"]
    ELSE IF recovering
    THEN IF frame.payload.recoveredSensors = <<>>
         THEN [frame EXCEPT !.pc = "done"]
         ELSE [frame EXCEPT !.i = 1, !.pc = "in_tracking"]
    ELSE [frame EXCEPT !.pc = "done"]

\* _handle_factory_restart_sync / _handle_factory_restart is entered.
StartRestart(S, F) ==
    \E th \in RestartThreads \ DOMAIN restart_threads, payload \in RestartPayloads(S, F) :
        /\ \A other \in DOMAIN restart_threads :
               restart_threads[other].payload = payload
        /\ restart_threads' = restart_threads @@
               (th :> LoopAt([pc |-> "in_sensors", payload |-> payload, i |-> 1,
                              recovered_count |-> 0, raised |-> FALSE], 1, TRUE))
        /\ UNCHANGED <<now, healthVars, riskVars, monitorVars, busVars, tasks,
                       running, active_failovers, on_failover_callbacks,
                       failover_events, pms_status,
                       recVars, loopVars, statusVars>>

\* One statement of recover_factory_sensors or of the reset loop, on one
\* thread.  del of a key that is no longer there raises KeyError, which
\* ends the handler (the listener logs it).
RestartStep ==
    \E th \in DOMAIN restart_threads :
        LET frame == restart_threads[th]
            sensor_id == frame.payload.recoveredSensors[frame.i]
            Goto(pc) == [frame EXCEPT !.pc = pc]
            SetFrame(f) == restart_threads' = [restart_threads EXCEPT ![th] = f]
        IN  /\ frame.pc # "done"
            /\ CASE frame.pc = "in_sensors" ->
                     /\ SetFrame(IF sensor_id \in DOMAIN sensors THEN Goto("is_healthy")
                                 ELSE LoopAt(frame, frame.i + 1, TRUE))
                     /\ UNCHANGED <<healthVars, sensor_risk_tracking>>
                 [] frame.pc = "is_healthy" ->
                     /\ SetFrame(IF ~sensors[sensor_id].is_healthy THEN Goto("set_healthy")
                                 ELSE LoopAt(frame, frame.i + 1, TRUE))
                     /\ UNCHANGED <<healthVars, sensor_risk_tracking>>
                 [] frame.pc = "set_healthy" ->
                     /\ sensors' = [sensors EXCEPT ![sensor_id].is_healthy = TRUE]
                     /\ SetFrame(Goto("clear_reason"))
                     /\ UNCHANGED <<sensors_order, factory_sensors, failed_sensors,
                                    sensor_risk_tracking>>
                 [] frame.pc = "clear_reason" ->
                     /\ sensors' = [sensors EXCEPT ![sensor_id].failure_reason = None]
                     /\ SetFrame(Goto("clear_timestamp"))
                     /\ UNCHANGED <<sensors_order, factory_sensors, failed_sensors,
                                    sensor_risk_tracking>>
                 [] frame.pc = "clear_timestamp" ->
                     /\ sensors' = [sensors EXCEPT ![sensor_id].failure_timestamp = None]
                     /\ SetFrame(Goto("discard"))
                     /\ UNCHANGED <<sensors_order, factory_sensors, failed_sensors,
                                    sensor_risk_tracking>>
                 [] frame.pc = "discard" ->
                     /\ failed_sensors' = failed_sensors \ {sensor_id}
                     /\ SetFrame(Goto("count"))
                     /\ UNCHANGED <<sensors, sensors_order, factory_sensors,
                                    sensor_risk_tracking>>
                 [] frame.pc = "count" ->
                     /\ SetFrame(LoopAt([frame EXCEPT !.recovered_count = @ + 1],
                                        frame.i + 1, TRUE))
                     /\ UNCHANGED <<healthVars, sensor_risk_tracking>>
                 [] frame.pc = "in_tracking" ->
                     /\ SetFrame(IF sensor_id \in DOMAIN sensor_risk_tracking
                                 THEN Goto("del")
                                 ELSE LoopAt(frame, frame.i + 1, FALSE))
                     /\ UNCHANGED <<healthVars, sensor_risk_tracking>>
                 [] frame.pc = "del" ->
                     /\ IF sensor_id \in DOMAIN sensor_risk_tracking
                        THEN /\ sensor_risk_tracking' = Del(sensor_risk_tracking, sensor_id)
                             /\ SetFrame(LoopAt(frame, frame.i + 1, FALSE))
                        ELSE /\ SetFrame([frame EXCEPT !.pc = "done", !.raised = TRUE])
                             /\ UNCHANGED sensor_risk_tracking
                     /\ UNCHANGED healthVars
            /\ UNCHANGED <<now, risk_history, factory_statuses, factory_order,
                           monitorVars, busVars, tasks, running, active_failovers,
                           on_failover_callbacks, failover_events, pms_status,
                           recVars, loopVars, statusVars>>

-----------------------------------------------------------------------------
(* SensorMonitor *)

\* Config.sensor_timeout_seconds (SENSOR_TIMEOUT_SECONDS, default '5')
sensor_timeout_seconds == 5

\* Config.factory_health_operational / _degraded / _critical (% of OK sensors)
factory_health_operational == 80
factory_health_degraded == 50
factory_health_critical == 20

SensorStatus == {"OK", "WARNING", "FAILED"}

NoCalls == [status_change |-> {}, sensor_failed |-> {}, update_factory_health |-> {},
            update_factory_status |-> {}, should_rebalance |-> {},
            failover_callbacks |-> <<>>, check_recovery |-> {},
            recovery_callbacks |-> <<>>, tick |-> <<>>, transitions |-> {},
            pms_report |-> {}, poll |-> {}, timeout_callbacks |-> <<>>,
            transition_to |-> <<>>, transition_callbacks |-> <<>>]

\* The monitor's fields as one value, so that the methods are operators on it.
Monitor ==
    [last_reading_times |-> last_reading_times,
     sensor_statuses |-> sensor_statuses,
     factory_sensors |-> sm_factory_sensors,
     factory_order |-> sm_factory_order,
     manual_failures |-> manual_failures,
     previous_factory_statuses |-> previous_factory_statuses,
     calls |-> NoCalls]

\* (ok_count / total) * 100 is a float in the code and is compared with the
\* integer thresholds only; its floor gives the same comparisons: for
\* doubles, (ok/total)*100 >= k iff 100*ok >= k*total iff (100*ok) div total >= k
\* for k in {20, 50, 80}.
HealthPercentage(ok_count, total) == (ok_count * 100) \div total

\* A classification that would take the thresholds as strict bounds.
FactoryHealthStatusOfStrict(health_percentage) ==
    IF health_percentage > factory_health_operational THEN "OPERATIONAL"
    ELSE IF health_percentage > factory_health_degraded THEN "DEGRADED"
    ELSE IF health_percentage > factory_health_critical THEN "CRITICAL"
    ELSE "DOWN"

\* get_factory_health: "Determine status based on thresholds"
FactoryHealthStatusOf(health_percentage) ==
    IF health_percentage >= factory_health_operational THEN "OPERATIONAL"
    ELSE IF health_percentage >= factory_health_degraded THEN "DEGRADED"
    ELSE IF health_percentage >= factory_health_critical THEN "CRITICAL"
    ELSE "DOWN"

\* SensorMonitor.get_factory_health: None for a factory without sensors.
get_factory_health(sm, factory_id) ==
    LET sns == GetSet(sm.factory_sensors, factory_id)
        StatusOf(s) == GetOr(sm.sensor_statuses, s, "OK")
        ok_count == Cardinality({s \in sns : StatusOf(s) = "OK"})
        warning_count == Cardinality({s \in sns : StatusOf(s) = "WARNING"})
        total == Cardinality(sns)
        health_percentage == HealthPercentage(ok_count, total)
    IN  IF sns = {} THEN None
        ELSE Some([factory_id |-> factory_id,
                   total_sensors |-> total,
                   ok_sensors |-> ok_count,
                   warning_sensors |-> warning_count,
                   failed_sensors |-> total - ok_count - warning_count,
                   health_percentage |-> health_percentage,
                   status |-> FactoryHealthStatusOf(health_percentage)])

\* A recomputation that would report the status whether or not it changed.
update_factory_health_always(sm, factory_id) ==
    LET health == get_factory_health(sm, factory_id)
        previous_status == Get(sm.previous_factory_statuses, factory_id)
    IN  IF health = None THEN sm
        ELSE [sm EXCEPT
                !.previous_factory_statuses = Put(@, factory_id, Val(health).status),
                !.calls.update_factory_health = @ \cup {Val(health)},
                !.calls.status_change = @ \cup
                    {[factory_id |-> factory_id, previous |-> previous_status,
                      new |-> Val(health).status,
                      health_percentage |-> Val(health).health_percentage]}]

\* SensorMonitor._update_factory_health
update_factory_health(sm, factory_id) ==
    LET health == get_factory_health(sm, factory_id)
        previous_status == Get(sm.previous_factory_statuses, factory_id)
    IN  IF health = None THEN sm
        ELSE IF previous_status = Some(Val(health).status) THEN sm
        ELSE [sm EXCEPT
                !.previous_factory_statuses = Put(@, factory_id, Val(health).status),
                !.calls.update_factory_health = @ \cup {Val(health)},
                !.calls.status_change = @ \cup
                    {[factory_id |-> factory_id, previous |-> previous_status,
                      new |-> Val(health).status,
                      health_percentage |-> Val(health).health_percentage]}]

\* SensorMonitor._notify_sensor_failed
notify_sensor_failed(sm, sensor_id, factory_id, reason) ==
    [sm EXCEPT !.calls.sensor_failed = @ \cup
        {[sensor_id |-> sensor_id, factory_id |-> factory_id, reason |-> reason]}]

\* SensorMonitor._get_factory_for_sensor: the first factory, in dict order,
\* that holds the sensor.  (The fallback on the sensor id's text needs a '-'
\* in the id; the ids of the model have none, so it gives None.)
RECURSIVE factory_for_sensor_from(_, _, _)
factory_for_sensor_from(sm, sensor_id, i) ==
    IF i > Len(sm.factory_order) THEN None
    ELSE IF sensor_id \in sm.factory_sensors[sm.factory_order[i]]
         THEN Some(sm.factory_order[i])
         ELSE factory_for_sensor_from(sm, sensor_id, i + 1)

get_factory_for_sensor(sm, sensor_id) == factory_for_sensor_from(sm, sensor_id, 1)

\* The 'status' of a reading: a SensorStatus value, or OK for anything else.
ReadingStatus(status_str) == IF status_str \in SensorStatus THEN status_str ELSE "OK"

\* A reading handler that would apply the reading's status whatever override
\* is in force.
process_sensor_reading_unprotected(sm, reading_data, clock) ==
    LET sensor_id == reading_data.sensor_id
        factory_id == reading_data.factory_id
        status == ReadingStatus(reading_data.status)
        updated == [sm EXCEPT
                      !.factory_sensors = DefaultAdd(@, factory_id, sensor_id),
                      !.factory_order = IF factory_id \in DOMAIN sm.factory_sensors
                                        THEN @ ELSE Append(@, factory_id),
                      !.last_reading_times = Put(@, sensor_id, clock),
                      !.sensor_statuses = Put(@, sensor_id, status)]
    IN  IF sensor_id = MissingId \/ factory_id = MissingId THEN sm
        ELSE IF reading_data.timestamp = "number" THEN sm
        ELSE update_factory_health(updated, factory_id)

\* SensorMonitor.process_sensor_reading.  reading_data.timestamp is "iso" for
\* a string (parsed, or replaced by utcnow() when it does not parse) and
\* "number" for a value without .replace: the AttributeError is caught by the
\* outer handler and the reading is dropped.
process_sensor_reading(sm, reading_data, clock) ==
    LET sensor_id == reading_data.sensor_id
        factory_id == reading_data.factory_id
        tracked == [sm EXCEPT
                      !.factory_sensors = DefaultAdd(@, factory_id, sensor_id),
                      !.factory_order = IF factory_id \in DOMAIN sm.factory_sensors
                                        THEN @ ELSE Append(@, factory_id)]
        overridden == sensor_id \in DOMAIN sm.manual_failures
                      /\ clock < sm.manual_failures[sensor_id]
        current_status == Get(sm.sensor_statuses, sensor_id)
        status == IF overridden
                  THEN (IF current_status # None THEN Val(current_status) ELSE "FAILED")
                  ELSE ReadingStatus(reading_data.status)
        expired == [tracked EXCEPT
                      !.manual_failures =
                          IF sensor_id \in DOMAIN @ /\ ~overridden
                          THEN Del(@, sensor_id) ELSE @]
        previous_status == Get(sm.sensor_statuses, sensor_id)
        updated == [expired EXCEPT
                      !.last_reading_times = Put(@, sensor_id, clock),
                      !.sensor_statuses = Put(@, sensor_id, status)]
        notified == IF status = "FAILED" /\ previous_status # Some("FAILED")
                    THEN notify_sensor_failed(updated, sensor_id, factory_id,
                                              "Sensor reported FAILED status")
                    ELSE updated
    IN  IF sensor_id = MissingId \/ factory_id = MissingId THEN sm
        ELSE IF reading_data.timestamp = "number" THEN sm
        ELSE update_factory_health(notified, factory_id)

\* update_factory_health for every factory of a list
RECURSIVE update_all(_, _, _)
update_all(sm, factories, i) ==
    IF i > Len(factories) THEN sm
    ELSE update_all(update_factory_health(sm, factories[i]), factories, i + 1)

\* The elements of a set of numbers in increasing order.
RECURSIVE SortedSeq(_)
SortedSeq(S) ==
    IF S = {} THEN <<>>
    ELSE LET m == CHOOSE x \in S : \A y \in S : x <= y
         IN  <<m>> \o SortedSeq(S \ {m})

SensorTimeoutReason(secs) == "No reading for " \o ToString(secs) \o ".0s"

\* SensorMonitor.check_sensor_timeouts.  The loop marks each timed-out sensor
\* on its own (no iteration reads what another one wrote), so its result is
\* given for all sensors at once; the factories affected are then updated,
\* each from the statuses the whole loop left.
check_sensor_timeouts(sm, clock) ==
    LET timed_out == {s \in DOMAIN sm.last_reading_times :
                         /\ clock - sm.last_reading_times[s] > sensor_timeout_seconds
                         /\ Get(sm.sensor_statuses, s) # Some("FAILED")}
        marked == [sm EXCEPT !.sensor_statuses =
                      [s \in DOMAIN @ \cup timed_out |->
                          IF s \in timed_out THEN "FAILED" ELSE @[s]]]
        located == {s \in timed_out : get_factory_for_sensor(sm, s) # None}
        factories_to_update == {Val(get_factory_for_sensor(sm, s)) : s \in located}
        notified == [marked EXCEPT !.calls.sensor_failed =
                        {[sensor_id |-> s,
                          factory_id |-> Val(get_factory_for_sensor(sm, s)),
                          reason |-> SensorTimeoutReason(clock - sm.last_reading_times[s])]
                         : s \in located}]
    IN  update_all(notified, SortedSeq(factories_to_update), 1)

\* SensorMonitor.update_sensor_status
update_sensor_status(sm, factory_id, sensor_id, new_status, duration_seconds, clock) ==
    LET previous_status == Get(sm.sensor_statuses, sensor_id)
        recovery_time == clock + duration_seconds
        set == [sm EXCEPT
                  !.sensor_statuses = Put(@, sensor_id, new_status),
                  !.manual_failures =
                      IF new_status \in {"FAILED", "WARNING"}
                      THEN Put(@, sensor_id, recovery_time) ELSE @]
        notified == IF new_status = "FAILED" /\ previous_status # Some("FAILED")
                    THEN notify_sensor_failed(set, sensor_id, factory_id,
                             "Manual failure trigger (" \o ToString(duration_seconds) \o "s)")
                    ELSE set
    IN  update_factory_health(notified, factory_id)

-----------------------------------------------------------------------------
(* Operations on the sensor monitor *)

\* duration_seconds of update_sensor_status.  The API handlers pass 60 (FAILED)
\* and 30 (WARNING); the model passes a duration that ends within MaxTimeSM.
Durations == {sensor_timeout_seconds}

\* Well-formed readings, and for each of them the same reading with the
\* sensor id missing, the factory id missing, or a timestamp that is no string.
ReadingPayloads(S, F) ==
    LET wellFormed == [sensor_id : S, factory_id : F,
                       status : SensorStatus \cup {"UNKNOWN"}, timestamp : {"iso"}]
        one == CHOOSE r \in wellFormed : TRUE
    IN  wellFormed \cup {[one EXCEPT !.sensor_id = MissingId],
                         [one EXCEPT !.factory_id = MissingId],
                         [one EXCEPT !.timestamp = "number"]}

SetMonitor(sm) ==
    /\ last_reading_times' = sm.last_reading_times
    /\ sensor_statuses' = sm.sensor_statuses
    /\ sm_factory_sensors' = sm.factory_sensors
    /\ sm_factory_order' = sm.factory_order
    /\ manual_failures' = sm.manual_failures
    /\ previous_factory_statuses' = sm.previous_factory_statuses
    /\ calls' = sm.calls

\* KafkaSensorConsumer._process_message
process_message(reading_data) ==
    /\ SetMonitor(process_sensor_reading(Monitor, reading_data, now))
    /\ UNCHANGED <<now, healthVars, riskVars, at_risk_topic, orchVars,
                   recVars, loopVars, statusVars>>

ProcessSensorReading(S, F) ==
    /\ \E reading_data \in ReadingPayloads(S, F) : process_message(reading_data)
    /\ UNCHANGED busPos

\* monitoring_loop: sensor_monitor.check_sensor_timeouts()
CheckSensorTimeouts ==
    /\ SetMonitor(check_sensor_timeouts(Monitor, now))
    /\ UNCHANGED <<now, healthVars, riskVars, busVars, orchVars,
                   recVars, loopVars, statusVars>>

\* lifespan, before the yield: asyncio.create_task for consume_loop and
\* monitoring_loop.  A task is suspended from its creation to its first
\* run, and then at each asyncio.sleep; between two suspensions it runs
\* alone.
LoopFrame ==
    [pc |-> "suspended", started |-> FALSE, waited |-> 0, reconnected |-> FALSE,
     cancelled |-> FALSE]

LifespanStartup ==
    /\ "consumer" \notin DOMAIN loop_tasks
    /\ loop_tasks' = Put(Put(loop_tasks, "consumer", LoopFrame),
                         "monitoring", LoopFrame)
    /\ kafka_clients' = Put(kafka_clients, "consumer",
                            [running |-> FALSE, closed |-> FALSE])
    /\ calls' = NoCalls
    /\ UNCHANGED <<now, healthVars, riskVars, last_reading_times, sensor_statuses,
                   sm_factory_sensors, sm_factory_order, manual_failures,
                   previous_factory_statuses, busVars, orchVars, recVars, statusVars,
                   shutdown_event>>

\* A consume_loop that would go on whatever has been requested.
consume_loop_runs_always(frame, client, event) == TRUE

\* consume_loop when the event loop runs it: a cancelled task gets
\* CancelledError at its await (or never starts) and ends; otherwise it
\* goes on while self._running and not shutdown_event.is_set(), _running
\* having been set before the loop is entered.
consume_loop_runs(frame, client, event) ==
    /\ ~frame.cancelled
    /\ frame.started => client.running
    /\ ~event

\* monitoring_loop when the event loop runs it.
monitoring_loop_runs(frame, event) == ~frame.cancelled /\ ~event

\* How a poll of consume_loop ends: records, no record, KafkaError, or
\* another exception; and the sleep that follows, in milliseconds.
PollOutcomes == {"records", "empty", "kafka_error", "error"}

sleep_after(outcome) ==
    IF outcome = "kafka_error" THEN 5000
    ELSE IF outcome = "error" THEN 1000
    ELSE 100

\* KafkaSensorConsumer.consume_loop from one suspension to the next.  The
\* first run connects, and returns when that fails; a run that follows the
\* wait after a KafkaError begins with connect().
ConsumerStep(S, F) ==
    LET frame == loop_tasks["consumer"]
        client == kafka_clients["consumer"]
        Ends == /\ loop_tasks' = [loop_tasks EXCEPT !["consumer"].pc = "done"]
                /\ calls' = NoCalls
                /\ UNCHANGED <<kafka_clients, last_reading_times, sensor_statuses,
                               sm_factory_sensors, sm_factory_order,
                               manual_failures, previous_factory_statuses>>
    IN  /\ "consumer" \in DOMAIN loop_tasks
        /\ frame.pc = "suspended"
        /\ IF ~consume_loop_runs(frame, client, shutdown_event)
           THEN Ends
           ELSE \E connected \in BOOLEAN, outcome \in PollOutcomes,
                   reading_data \in ReadingPayloads(S, F) :
                    IF ~frame.started /\ ~connected
                    THEN Ends
                    ELSE /\ loop_tasks' = [loop_tasks EXCEPT !["consumer"] =
                                [@ EXCEPT !.started = TRUE,
                                          !.reconnected = (frame.waited = 5000),
                                          !.waited = sleep_after(outcome)]]
                         /\ kafka_clients' = [kafka_clients EXCEPT
                                !["consumer"].running = TRUE]
                         /\ LET sm == IF outcome = "records"
                                      THEN process_sensor_reading(Monitor,
                                               reading_data, now)
                                      ELSE Monitor
                            IN  SetMonitor([sm EXCEPT !.calls.poll = {outcome}])
        /\ UNCHANGED <<now, healthVars, riskVars, busVars, orchVars, recVars, statusVars,
                       shutdown_event>>

\* monitoring_loop from one suspension to the next: one tick.
MonitoringStep ==
    LET frame == loop_tasks["monitoring"]
    IN  /\ "monitoring" \in DOMAIN loop_tasks
        /\ frame.pc = "suspended"
        /\ IF ~monitoring_loop_runs(frame, shutdown_event)
           THEN /\ loop_tasks' = [loop_tasks EXCEPT !["monitoring"].pc = "done"]
                /\ calls' = NoCalls
                /\ UNCHANGED <<last_reading_times, sensor_statuses,
                               sm_factory_sensors, sm_factory_order,
                               manual_failures, previous_factory_statuses>>
           ELSE /\ loop_tasks' = [loop_tasks EXCEPT !["monitoring"] =
                       [@ EXCEPT !.started = TRUE, !.waited = 1000]]
                /\ SetMonitor([check_sensor_timeouts(Monitor, now) EXCEPT
                       !.calls.tick = <<"check_sensor_timeouts">>])
        /\ UNCHANGED <<now, healthVars, riskVars, busVars, orchVars, recVars, statusVars,
                       shutdown_event, kafka_clients>>

\* task.cancel(): a task that has not ended is to get CancelledError.
cancel(frame) == IF frame.pc = "done" THEN frame ELSE [frame EXCEPT !.cancelled = TRUE]

\* lifespan, after the yield: the event is set, the consumer is stopped
\* and closed, and both tasks are cancelled, with no await in between.
LifespanShutdown ==
    /\ "consumer" \in DOMAIN loop_tasks
    /\ ~shutdown_event
    /\ shutdown_event' = TRUE
    /\ kafka_clients' = [kafka_clients EXCEPT
           !["consumer"] = [running |-> FALSE, closed |-> TRUE]]
    /\ loop_tasks' = [name \in DOMAIN loop_tasks |-> cancel(loop_tasks[name])]
    /\ calls' = NoCalls
    /\ UNCHANGED <<now, healthVars, riskVars, last_reading_times, sensor_statuses,
                   sm_factory_sensors, sm_factory_order, manual_failures,
                   previous_factory_statuses, busVars, orchVars, recVars, statusVars>>

\* SensorMonitor.get_factory_sensors
get_factory_sensors(sm, factory_id) ==
    [s \in GetSet(sm.factory_sensors, factory_id) |-> GetOr(sm.sensor_statuses, s, "OK")]

\* trigger_specific_failure / trigger_specific_warning for one sensor: the
\* factory is one that has sensors, the sensor one of its OK sensors.
trigger(factory_id, sensor_id, new_status, d) ==
    /\ get_factory_health(Monitor, factory_id) # None
    /\ sensor_id \in DOMAIN get_factory_sensors(Monitor, factory_id)
    /\ get_factory_sensors(Monitor, factory_id)[sensor_id] = "OK"
    /\ SetMonitor(update_sensor_status(Monitor, factory_id, sensor_id, new_status, d, now))
    /\ UNCHANGED <<now, healthVars, riskVars, busVars, orchVars,
                   recVars, loopVars, statusVars>>

UpdateSensorStatus(S, F) ==
    \E s \in S, f \in F, new_status \in {"FAILED", "WARNING"}, d \in Durations :
        trigger(f, s, new_status, d)

-----------------------------------------------------------------------------
(* RiskPredictor.predict_factory_risk (predictive/risk_predictor.py)         *)
(*                                                                           *)
(* A sub-score is kept in tenths (0.3 is 3) and the weighted score in        *)
(* hundredths (0.7 is 70).  The code adds doubles, 0 + e*0.3 + l*0.2 +       *)
(* h*0.3 + r*0.2 in this order; for each of the 700 combinations of values   *)
(* the four mappings return that sum compares with 0.7 and 0.4 as the exact  *)
(* sum does.  An error rate is kept in thousandths.  The thresholds          *)
(* config.high_risk_error_rate_threshold, degraded_error_rate_threshold and  *)
(* missed_heartbeats_threshold are read by the code but not set by           *)
(* config.py; they have the documented defaults (0.10, 0.05, 3).             *)

high_risk_error_rate_threshold == 100
degraded_error_rate_threshold == 50
missed_heartbeats_threshold == 3

FactoryStatus == {"UP", "DEGRADED", "DOWN"}

\* RiskPredictor._assess_error_rate, on fault_detector.calculate_error_rate's result
assess_error_rate(error_rate) ==
    IF error_rate >= high_risk_error_rate_threshold THEN 10
    ELSE IF error_rate >= degraded_error_rate_threshold THEN 6
    ELSE IF error_rate > 0 THEN 3
    ELSE 0

RECURSIVE SumSeq(_)
SumSeq(q) == IF q = <<>> THEN 0 ELSE Head(q) + SumSeq(Tail(q))

\* RiskPredictor._assess_latency_trend.  heartbeats holds metrics.latency_ms
\* of the heartbeats of the window, newest first, 0 when there is none.  The
\* comparisons of quotients are made on the cross products.
assess_latency_trend(heartbeats) ==
    LET latencies == SelectSeq(heartbeats, LAMBDA l : l # 0)
        n == Len(latencies)
        mid == n \div 2
        older == SubSeq(latencies, mid + 1, n)
        newer == SubSeq(latencies, 1, mid)
        \* (second_half_avg - first_half_avg) * Len(older) * Len(newer)
        increase == SumSeq(newer) * Len(older) - SumSeq(older) * Len(newer)
        base == SumSeq(older) * Len(newer)
    IN  IF Len(heartbeats) < 3 \/ n < 3 THEN 0
        ELSE IF SumSeq(older) > 0 /\ 2 * increase > base THEN 8
        ELSE IF SumSeq(older) > 0 /\ 5 * increase > base THEN 5
        ELSE IF SumSeq(older) > 0 /\ increase > 0 THEN 2
        ELSE IF SumSeq(latencies) > 2000 * n THEN 9
        ELSE IF SumSeq(latencies) > 1000 * n THEN 6
        ELSE IF SumSeq(latencies) > 500 * n THEN 3
        ELSE 0

\* RiskPredictor._assess_heartbeat_stability.  status is the optional
\* persisted document (its missed_heartbeats), statuses the status manager.
assess_heartbeat_stability(status, statuses, factory_id) ==
    IF status = None THEN 0
    ELSE IF Val(status) >= missed_heartbeats_threshold THEN 10
    ELSE IF Val(status) >= 2 THEN 7
    ELSE IF Val(status) >= 1 THEN 4
    ELSE IF factory_id \in DOMAIN statuses /\ statuses[factory_id] = "DOWN" THEN 10
    ELSE IF factory_id \in DOMAIN statuses /\ statuses[factory_id] = "DEGRADED" THEN 6
    ELSE 0

\* RiskPredictor._assess_resource_usage.  latest is the optional latest
\* heartbeat: its metrics' cpu_usage and memory_usage.
assess_resource_usage(latest) ==
    LET cpu_usage == Val(latest).cpu_usage
        memory_usage == Val(latest).memory_usage
        max_usage == IF cpu_usage >= memory_usage THEN cpu_usage ELSE memory_usage
    IN  IF latest = None THEN 0
        ELSE IF max_usage >= 95 THEN 10
        ELSE IF max_usage >= 85 THEN 7
        ELSE IF max_usage >= 70 THEN 4
        ELSE IF max_usage >= 50 THEN 2
        ELSE 0

\* A classification that would take the thresholds as strict bounds.
risk_level_of_strict(risk_score) ==
    IF risk_score > 70 THEN "HIGH"
    ELSE IF risk_score > 40 THEN "MEDIUM"
    ELSE "LOW"

\* predict_factory_risk: "Determine risk level"
risk_level_of(risk_score) ==
    IF risk_score >= 70 THEN "HIGH"
    ELSE IF risk_score >= 40 THEN "MEDIUM"
    ELSE "LOW"

\* predict_factory_risk: the sub-scores, the weighted score and the level
assess(db, statuses, factory_id) ==
    LET factors == [error_rate |-> assess_error_rate(db.error_rate),
                    latency_trend |-> assess_latency_trend(db.heartbeats),
                    heartbeat_stability |->
                        assess_heartbeat_stability(db.status, statuses, factory_id),
                    resource_usage |-> assess_resource_usage(db.latest)]
        risk_score == factors.error_rate * 3 + factors.latency_trend * 2
                      + factors.heartbeat_stability * 3 + factors.resource_usage * 2
    IN  [factory_id |-> factory_id, risk_level |-> risk_level_of(risk_score),
         factors |-> factors]

\* What the persistence holds for a factory when it is assessed.
LatencySamples ==
    {<<>>, <<100, 100, 100>>, <<400, 100, 100>>, <<130, 100, 100>>,
     <<110, 100, 100>>, <<2500, 2500, 2500>>, <<1500, 1500, 1500>>,
     <<600, 600, 600>>, <<600, 0, 600, 600>>, <<600, 0, 600>>}

Usages == {0, 50, 70, 85, 95}

RiskInputs ==
    [error_rate : {0, 1, degraded_error_rate_threshold, high_risk_error_rate_threshold},
     heartbeats : LatencySamples,
     status : {None} \cup {Some(m) : m \in 0..missed_heartbeats_threshold},
     latest : {None} \cup {Some([cpu_usage |-> c, memory_usage |-> 0]) : c \in Usages}
              \cup {Some([cpu_usage |-> 0, memory_usage |-> 95])}]

\* What the operations below find for a factory without a document.
NoDoc == [status |-> None, consecutive_healthy |-> 0, missed_heartbeats |-> 0]

\* MongoDBClient.update_factory_status: upsert of the factory's document
persist_factory_status(health, factory_id, status) ==
    Put(health, factory_id,
        [GetOr(health, factory_id, NoDoc) EXCEPT !.status = Some(status)])

\* mongodb_client.increment_consecutive_healthy; the read-back is the
\* counter of the document afterwards.
increment_consecutive_healthy(health, factory_id) ==
    Put(health, factory_id,
        [GetOr(health, factory_id, NoDoc) EXCEPT !.consecutive_healthy = @ + 1])

reset_consecutive_healthy(health, factory_id) ==
    Put(health, factory_id,
        [GetOr(health, factory_id, NoDoc) EXCEPT !.consecutive_healthy = 0])

increment_missed_heartbeats(health, factory_id) ==
    Put(health, factory_id,
        [GetOr(health, factory_id, NoDoc) EXCEPT !.missed_heartbeats = @ + 1])

reset_missed_heartbeats(health, factory_id) ==
    Put(health, factory_id,
        [GetOr(health, factory_id, NoDoc) EXCEPT !.missed_heartbeats = 0])

\* The documents after the update_factory_status calls of writes.
persisted(health, writes) ==
    [f \in DOMAIN health \cup {w.factory_id : w \in writes} |->
        IF \E w \in writes : w.factory_id = f
        THEN [GetOr(health, f, NoDoc) EXCEPT
                 !.status = Some((CHOOSE w \in writes : w.factory_id = f).status)]
        ELSE health[f]]

\* FactoryStatusManager.get_or_create: a new state machine starts UP.
get_or_create(statuses, factory_id) ==
    IF factory_id \in DOMAIN statuses THEN statuses ELSE statuses @@ (factory_id :> "UP")

\* The keys of FactoryStatusManager._factories after get_or_create.
order_after(order, factory_id) ==
    IF \E i \in DOMAIN order : order[i] = factory_id THEN order
    ELSE Append(order, factory_id)

\* FactoryStatusStateMachine.transition_to: the transitions that lead from
\* the statuses before an operation to those after it.
transitions_made(before, after) ==
    {[factory_id |-> f, from |-> get_or_create(before, f)[f], to |-> after[f]] :
        f \in {g \in DOMAIN after : get_or_create(before, g)[g] # after[g]}}

\* RiskPredictor.predict_factory_risk for one factory.  The history keeps the
\* last 50 assessments; the model stops assessing a factory at MaxHistory.
predict_factory_risk(factory_id, db) ==
    LET assessment == assess(db, factory_statuses, factory_id)
        history == IF factory_id \in DOMAIN risk_history
                   THEN risk_history[factory_id] ELSE <<>>
    IN  /\ Len(history) < MaxHistory
        /\ risk_history' = Put(risk_history, factory_id, Append(history, assessment))
        /\ factory_statuses' = get_or_create(factory_statuses, factory_id)
        /\ factory_order' = order_after(factory_order, factory_id)
        /\ calls' = [NoCalls EXCEPT !.update_factory_status =
                        {[factory_id |-> factory_id,
                          status |-> factory_statuses'[factory_id],
                          risk_level |-> assessment.risk_level]}]
        /\ factory_health' =
               persisted(factory_health, calls'.update_factory_status)
        /\ UNCHANGED <<now, healthVars, sensor_risk_tracking, last_reading_times,
                       sensor_statuses, sm_factory_sensors, sm_factory_order,
                       manual_failures, previous_factory_statuses, busVars, orchVars,
                       last_heartbeat_times, recovering_factories,
                       on_recovery_callbacks, loopVars, statusVars>>

PredictFactoryRisk(F) ==
    \E f \in F, db \in RiskInputs : predict_factory_risk(f, db)

\* The candidates of a rebalance that would count the factory itself.
healthy_factories_any(all_statuses, factory_id) ==
    {fid \in DOMAIN all_statuses : all_statuses[fid] = "UP"}

\* should_preemptively_rebalance: "Check if other factories have capacity"
healthy_factories(all_statuses, factory_id) ==
    {fid \in DOMAIN all_statuses : all_statuses[fid] = "UP" /\ fid # factory_id}

\* RiskPredictor.should_preemptively_rebalance: the assessment is made and
\* stored as predict_factory_risk does, then the status manager is read.
should_preemptively_rebalance(factory_id, db) ==
    LET assessment == assess(db, factory_statuses, factory_id)
        history == IF factory_id \in DOMAIN risk_history
                   THEN risk_history[factory_id] ELSE <<>>
        all_statuses == get_or_create(factory_statuses, factory_id)
        result == IF assessment.risk_level # "HIGH" THEN FALSE
                  ELSE healthy_factories(all_statuses, factory_id) # {}
    IN  /\ Len(history) < MaxHistory
        /\ risk_history' = Put(risk_history, factory_id, Append(history, assessment))
        /\ factory_statuses' = all_statuses
        /\ factory_order' = order_after(factory_order, factory_id)
        /\ calls' = [NoCalls EXCEPT
                        !.update_factory_status =
                            {[factory_id |-> factory_id,
                              status |-> all_statuses[factory_id],
                              risk_level |-> assessment.risk_level]},
                        !.should_rebalance =
                            {[factory_id |-> factory_id, result |-> result]}]
        /\ factory_health' =
               persisted(factory_health, calls'.update_factory_status)
        /\ UNCHANGED <<now, healthVars, sensor_risk_tracking, last_reading_times,
                       sensor_statuses, sm_factory_sensors, sm_factory_order,
                       manual_failures, previous_factory_statuses, busVars, orchVars,
                       last_heartbeat_times, recovering_factories,
                       on_recovery_callbacks, loopVars, statusVars>>

ShouldPreemptivelyRebalance(F) ==
    \E f \in F, db \in RiskInputs : should_preemptively_rebalance(f, db)

-----------------------------------------------------------------------------
(* FailoverManager.  trigger_failover and preemptive_rebalance are           *)
(* coroutines of one event loop: a task runs alone from one await to the     *)
(* next (running names it), and other tasks are scheduled only while it      *)
(* waits for PMS.  A frame holds the locals of one call and where it is.     *)

Tasks == 1..MaxTasks

Frame(op, factory_id, reason) ==
    [op |-> op, factory_id |-> factory_id, reason |-> reason, pc |-> "entered",
     backup |-> None, attempt |-> 0, result |-> None, returned |-> None,
     raised |-> FALSE, sleeping |-> FALSE, last_error |-> None, delays |-> <<>>]

\* _find_backup_factory.get_risk_score: risk_scores.get(level, 1)
risk_score(risk_level) ==
    IF risk_level = "LOW" THEN 0
    ELSE IF risk_level = "HIGH" THEN 2
    ELSE 1

\* list.sort(key=...): stable, elements of equal key keep their order.
RECURSIVE sort_by(_, _)
sort_by(q, key) ==
    IF q = <<>> THEN <<>>
    ELSE LET rest == sort_by(Tail(q), key)
             before == SelectSeq(rest, LAMBDA x : key[x] < key[Head(q)])
             after == SelectSeq(rest, LAMBDA x : key[x] >= key[Head(q)])
         IN  before \o <<Head(q)>> \o after

\* _find_backup_factory: "Filter for UP factories excluding the failed one",
\* in the order of the status manager's dict
backup_candidates(statuses, order, failed_factory_id) ==
    SelectSeq(order, LAMBDA fid : statuses[fid] = "UP" /\ fid # failed_factory_id)

\* FailoverManager._find_backup_factory.  levels holds, for every candidate,
\* the risk level predict_factory_risk assesses for it during the sort.
find_backup_factory(statuses, order, failed_factory_id, levels) ==
    LET candidates == backup_candidates(statuses, order, failed_factory_id)
        sorted == sort_by(candidates,
                          [fid \in DOMAIN levels |-> risk_score(levels[fid])])
    IN  IF candidates = <<>> THEN None ELSE Some(sorted[1])

\* What the persistence holds for a candidate when the sort assesses it:
\* metrics that make its risk LOW, MEDIUM and HIGH.
BackupRiskInputs ==
    {[error_rate |-> 0, heartbeats |-> <<>>, status |-> None, latest |-> None],
     [error_rate |-> high_risk_error_rate_threshold, heartbeats |-> <<>>,
      status |-> Some(1), latest |-> None],
     [error_rate |-> high_risk_error_rate_threshold, heartbeats |-> <<>>,
      status |-> Some(missed_heartbeats_threshold),
      latest |-> Some([cpu_usage |-> 95, memory_usage |-> 0])]}

\* FactoryStatusStateMachine.transition_to on the state machine that
\* get_or_create returns: the status is new_status afterwards.
transition_to(statuses, factory_id, new_status) ==
    [get_or_create(statuses, factory_id) EXCEPT ![factory_id] = new_status]

\* trigger_failover: "Prevent duplicate failovers"
already_in_progress_never(active, factory_id) == FALSE

already_in_progress(active, factory_id) == factory_id \in active

\* A trigger_failover that would release the factory only when it returns
\* normally.
discard_unless_raised(active, frame) ==
    IF frame.raised THEN active ELSE active \ {frame.factory_id}

\* trigger_failover: finally: self._active_failovers.discard(factory_id)
discard_finally(active, frame) == active \ {frame.factory_id}

\* A trigger_failover that would mark the factory DOWN and run the
\* callbacks only when PMS has accepted the report.
after_pms_if_accepted(frame) ==
    IF frame.op = "preemptive_rebalance" THEN "log_rebalance"
    ELSE IF Val(frame.result).success THEN "status" ELSE "return"

\* Where a call continues when report_factory_status_with_retry returns.
after_pms(frame) ==
    IF frame.op = "preemptive_rebalance" THEN "log_rebalance"
    ELSE IF frame.op = "trigger_failover" THEN "status"
    ELSE "rec_callbacks"

\* The status a call reports to PMS.
reported_status(frame) ==
    IF frame.op = "preemptive_rebalance" THEN "DEGRADED"
    ELSE IF frame.op = "trigger_failover" THEN "DOWN"
    ELSE "UP"

SetTask(t, frame) == tasks' = Put(tasks, t, frame)

\* FailoverManager.on_failover
OnFailover ==
    /\ running = None
    /\ Len(on_failover_callbacks) < MaxCallbacks
    /\ on_failover_callbacks' =
           Append(on_failover_callbacks, Len(on_failover_callbacks) + 1)
    /\ calls' = NoCalls
    /\ UNCHANGED <<now, healthVars, riskVars, last_reading_times, sensor_statuses,
                   sm_factory_sensors, sm_factory_order, manual_failures,
                   previous_factory_statuses, busVars, restart_threads, tasks,
                   running, active_failovers, failover_events, pms_status,
                   recVars, loopVars, statusVars>>

\* trigger_failover(factory_id, reason) is called: the duplicate guard.
TriggerFailover(T, F) ==
    \E t \in T \ DOMAIN tasks, f \in F :
        LET frame == Frame("trigger_failover", f, "failure")
        IN  /\ running = None
            /\ IF already_in_progress(active_failovers, f)
               THEN /\ SetTask(t, [frame EXCEPT
                          !.pc = "done",
                          !.returned = Some([success |-> FALSE,
                               message |-> "Failover already in progress"])])
                    /\ UNCHANGED <<running, active_failovers>>
               ELSE /\ SetTask(t, [frame EXCEPT !.pc = "log"])
                    /\ active_failovers' = active_failovers \cup {f}
                    /\ running' = Some(t)
            /\ calls' = NoCalls
            /\ UNCHANGED <<now, healthVars, riskVars, last_reading_times,
                           sensor_statuses, sm_factory_sensors, sm_factory_order,
                           manual_failures, previous_factory_statuses, busVars,
                           restart_threads, on_failover_callbacks, failover_events,
                           pms_status,
                           recVars, loopVars, statusVars>>

\* preemptive_rebalance(factory_id) is called.
PreemptiveRebalance(T, F) ==
    \E t \in T \ DOMAIN tasks, f \in F :
        /\ running = None
        /\ SetTask(t, [Frame("preemptive_rebalance", f,
                              "Preemptive rebalance - high risk detected")
                           EXCEPT !.pc = "mark_degraded"])
        /\ running' = Some(t)
        /\ calls' = NoCalls
        /\ UNCHANGED <<now, healthVars, riskVars, last_reading_times,
                       sensor_statuses, sm_factory_sensors, sm_factory_order,
                       manual_failures, previous_factory_statuses, busVars,
                       restart_threads, active_failovers, on_failover_callbacks,
                       failover_events, pms_status,
                       recVars, loopVars, statusVars>>

\* f"Missed {missed} consecutive heartbeats"
MissedReason(missed) == "Missed " \o ToString(missed) \o " consecutive heartbeats"

\* The locals of one check_and_trigger_failovers call: the factories its
\* snapshot of the statuses shows DOWN, in dict order, and the index of the
\* one it is at; while it awaits trigger_failover, the frame holds the
\* locals of that call.
ScanFrame == Frame("trigger_failover", MissingId, "") @@ [snapshot |-> <<>>, i |-> 0]

IsScan(frame) == "snapshot" \in DOMAIN frame

\* check_and_trigger_failovers() is called: the snapshot of the statuses.
CheckAndTriggerFailovers(T) ==
    \E t \in T \ DOMAIN tasks :
        /\ running = None
        /\ SetTask(t, [ScanFrame EXCEPT
               !.pc = "fscan", !.i = 1,
               !.snapshot = SelectSeq(factory_order, LAMBDA f :
                                factory_statuses[f] = "DOWN")])
        /\ running' = Some(t)
        /\ calls' = NoCalls
        /\ UNCHANGED <<now, healthVars, riskVars, last_reading_times,
                       sensor_statuses, sm_factory_sensors, sm_factory_order,
                       manual_failures, previous_factory_statuses, busVars,
                       restart_threads, active_failovers, on_failover_callbacks,
                       failover_events, pms_status, recVars, loopVars, statusVars>>

\* The history of a factory after one more assessment; the code keeps the
\* last 50, the model the last MaxHistory.
record_assessment(history, assessment) ==
    LET h == Append(IF assessment.factory_id \in DOMAIN history
                    THEN history[assessment.factory_id] ELSE <<>>, assessment)
    IN  Put(history, assessment.factory_id,
            IF Len(h) > MaxHistory THEN SubSeq(h, Len(h) - MaxHistory + 1, Len(h))
            ELSE h)

RECURSIVE record_assessments(_, _)
record_assessments(history, assessments) ==
    IF assessments = <<>> THEN history
    ELSE record_assessments(record_assessment(history, Head(assessments)),
                            Tail(assessments))

\* The running task executes its next statement.
FailoverStep ==
    \E t \in DOMAIN tasks :
        LET frame == tasks[t]
            f == frame.factory_id
            Goto(pc) == SetTask(t, [frame EXCEPT !.pc = pc])
            Quiet == calls' = NoCalls
            event(reason, target) ==
                [factory_id |-> f, reason |-> reason, target_factory |-> target]
        IN  /\ running = Some(t)
            /\ frame.op \in {"trigger_failover", "preemptive_rebalance"}
            /\ CASE frame.pc = "fscan" ->
                     /\ IF frame.i > Len(frame.snapshot)
                        THEN /\ Goto("done") /\ running' = None
                             /\ UNCHANGED active_failovers
                        ELSE LET g == frame.snapshot[frame.i]
                                 missed == GetOr(factory_health, g, NoDoc).missed_heartbeats
                             IN  IF \/ g \notin DOMAIN factory_health
                                    \/ missed < missed_heartbeats_threshold
                                    \/ already_in_progress(active_failovers, g)
                                 THEN /\ SetTask(t, [frame EXCEPT !.i = @ + 1])
                                      /\ UNCHANGED <<running, active_failovers>>
                                 ELSE /\ SetTask(t, [frame EXCEPT
                                             !.factory_id = g,
                                             !.reason = MissedReason(missed),
                                             !.pc = "log", !.backup = None,
                                             !.attempt = 0, !.result = None,
                                             !.returned = None, !.delays = <<>>,
                                             !.last_error = None])
                                      /\ active_failovers' = active_failovers \cup {g}
                                      /\ UNCHANGED running
                     /\ Quiet
                     /\ UNCHANGED <<factory_health, riskVars, failover_events,
                                    pms_status>>
                 [] frame.pc = "log" ->
                     /\ failover_events' =
                            Append(failover_events, event(frame.reason, None))
                     /\ Goto("select") /\ Quiet
                     /\ UNCHANGED <<factory_health, riskVars, running, active_failovers,
                                    pms_status>>
                 [] frame.pc = "select" ->
                     LET candidates == backup_candidates(factory_statuses,
                                                         factory_order, f)
                         ids == {candidates[i] : i \in DOMAIN candidates}
                     IN  \E db \in [ids -> BackupRiskInputs] :
                           LET assessments ==
                                   [i \in DOMAIN candidates |->
                                       assess(db[candidates[i]], factory_statuses,
                                              candidates[i])]
                               levels == [g \in ids |->
                                   assess(db[g], factory_statuses, g).risk_level]
                               backup_factory == find_backup_factory(
                                   factory_statuses, factory_order, f, levels)
                           IN  /\ risk_history' =
                                      record_assessments(risk_history, assessments)
                               /\ calls' = [NoCalls EXCEPT !.update_factory_status =
                                      {[factory_id |-> g, status |-> factory_statuses[g],
                                        risk_level |-> levels[g]] : g \in ids}]
                               /\ SetTask(t, [frame EXCEPT
                                      !.backup = backup_factory,
                                      !.pc = IF backup_factory = None THEN "pms"
                                             ELSE "log_backup"])
                               /\ factory_health' = persisted(factory_health,
                                      calls'.update_factory_status)
                               /\ UNCHANGED <<sensor_risk_tracking, factory_statuses,
                                              factory_order, running, active_failovers,
                                              failover_events, pms_status>>
                 [] frame.pc = "log_backup" ->
                     /\ failover_events' = Append(failover_events,
                            event("Selected backup", frame.backup))
                     /\ Goto("pms") /\ Quiet
                     /\ UNCHANGED <<factory_health, riskVars, running, active_failovers,
                                    pms_status>>
                 [] frame.pc = "mark_degraded" ->
                     /\ factory_statuses' = transition_to(factory_statuses, f, "DEGRADED")
                     /\ factory_order' = order_after(factory_order, f)
                     /\ Goto("pms") 
                     /\ calls' = [NoCalls EXCEPT !.transitions =
                            transitions_made(factory_statuses, factory_statuses')]
                     /\ UNCHANGED <<factory_health, sensor_risk_tracking, risk_history,
                                    running, active_failovers, failover_events,
                                    pms_status>>
                 [] frame.pc = "pms" ->
                     /\ SetTask(t, [frame EXCEPT !.pc = "await_pms", !.attempt = 1])
                     /\ running' = None /\ Quiet
                     /\ UNCHANGED <<factory_health, riskVars, active_failovers,
                                    failover_events, pms_status>>
                 [] frame.pc = "status" ->
                     /\ factory_statuses' = transition_to(factory_statuses, f, "DOWN")
                     /\ factory_order' = order_after(factory_order, f)
                     /\ Goto("persist") 
                     /\ calls' = [NoCalls EXCEPT !.transitions =
                            transitions_made(factory_statuses, factory_statuses')]
                     /\ UNCHANGED <<factory_health, sensor_risk_tracking, risk_history,
                                    running, active_failovers, failover_events,
                                    pms_status>>
                 [] frame.pc = "persist" ->
                     /\ calls' = [NoCalls EXCEPT !.update_factory_status =
                            {[factory_id |-> f, status |-> "DOWN", risk_level |-> "LOW"]}]
                     /\ Goto("callbacks")
                     /\ factory_health' =
                            persisted(factory_health, calls'.update_factory_status)
                     /\ UNCHANGED <<riskVars, running, active_failovers,
                                    failover_events, pms_status>>
                 [] frame.pc = "callbacks" ->
                     /\ calls' = [NoCalls EXCEPT !.failover_callbacks =
                            [i \in DOMAIN on_failover_callbacks |->
                                [callback |-> on_failover_callbacks[i],
                                 factory_id |-> f, reason |-> frame.reason,
                                 backup_factory |-> frame.backup,
                                 result |-> Val(frame.result)]]]
                     /\ Goto("return")
                     /\ UNCHANGED <<factory_health, riskVars, running,
                                    active_failovers, failover_events, pms_status>>
                 [] frame.pc = "return" ->
                     /\ SetTask(t, [frame EXCEPT
                            !.pc = "finally",
                            !.returned = Some([success |-> Val(frame.result).success,
                                               factory_id |-> f,
                                               backup_factory |-> frame.backup,
                                               message |-> Val(frame.result).message])])
                     /\ Quiet
                     /\ UNCHANGED <<factory_health, riskVars, running,
                                    active_failovers, failover_events, pms_status>>
                 [] frame.pc = "finally" ->
                     /\ active_failovers' = discard_finally(active_failovers, frame)
                     /\ IF IsScan(frame) /\ ~frame.raised
                        THEN /\ SetTask(t, [frame EXCEPT !.pc = "fscan", !.i = @ + 1])
                             /\ UNCHANGED running
                        ELSE /\ Goto("done") /\ running' = None
                     /\ Quiet
                     /\ UNCHANGED <<factory_health, riskVars, failover_events, pms_status>>
                 [] frame.pc = "log_rebalance" ->
                     /\ failover_events' = Append(failover_events,
                            event("Preemptive rebalance initiated", None))
                     /\ Goto("return_result") /\ Quiet
                     /\ UNCHANGED <<factory_health, riskVars, running, active_failovers,
                                    pms_status>>
                 [] frame.pc = "return_result" ->
                     /\ SetTask(t, [frame EXCEPT !.pc = "done",
                                                 !.returned = frame.result])
                     /\ running' = None /\ Quiet
                     /\ UNCHANGED <<factory_health, riskVars, active_failovers,
                                    failover_events, pms_status>>
            /\ UNCHANGED <<now, healthVars, last_reading_times, sensor_statuses,
                           sm_factory_sensors, sm_factory_order, manual_failures,
                           previous_factory_statuses, busVars, restart_threads,
                           on_failover_callbacks,
                           last_heartbeat_times, recovering_factories,
                           on_recovery_callbacks, loopVars, statusVars>>

\* report_factory_status_with_retry(..., max_retries: int = 3)
max_retries == 3

\* delay = 0.5 * (2 ** (attempt - 1)), in milliseconds
backoff_delay(attempt) == 500 * 2^(attempt - 1)

\* How one attempt ends: PMS accepts the report, report_factory_status
\* returns an error result, or it raises.
PmsOutcomes == {"accepted", "error", "raised"}

\* The outcomes seen by the callers, which read nothing but the result.
PmsAnswers == {"accepted", "error"}

\* result.get("message") of an error result, str(e) of an exception
last_error_of(outcome) ==
    IF outcome = "error" THEN "PMS error: 500" ELSE "PMS unavailable"

AllRetriesFailed(last_error) ==
    [success |-> FALSE, message |-> "All retries failed: " \o Val(last_error)]

\* A retry that would sleep after the last attempt as well.
retry_after_sleeping_always(frame, outcome) ==
    IF outcome = "accepted"
    THEN [frame EXCEPT !.result = Some([success |-> TRUE,
                                        message |-> "Status updated"])]
    ELSE [frame EXCEPT !.last_error = Some(last_error_of(outcome)),
                       !.sleeping = TRUE,
                       !.delays = Append(@, backoff_delay(frame.attempt))]

\* PMSClient.report_factory_status_with_retry: the body of the loop for the
\* attempt of frame that ended with outcome.
retry_after(frame, outcome) ==
    IF outcome = "accepted"
    THEN [frame EXCEPT !.result = Some([success |-> TRUE,
                                        message |-> "Status updated"])]
    ELSE LET failed == [frame EXCEPT !.last_error = Some(last_error_of(outcome))]
         IN  IF frame.attempt < max_retries
             THEN [failed EXCEPT !.sleeping = TRUE,
                                 !.delays = Append(@, backoff_delay(frame.attempt))]
             ELSE [failed EXCEPT !.result = Some(AllRetriesFailed(failed.last_error))]

\* PMSClient.report_factory_status_with_retry: asyncio.sleep(delay) ends and
\* the loop goes on with the next attempt of range(1, max_retries + 1), or
\* is left when there is none.
retry_next(frame) ==
    IF frame.attempt < max_retries
    THEN [frame EXCEPT !.sleeping = FALSE, !.attempt = @ + 1]
    ELSE [frame EXCEPT !.sleeping = FALSE,
                       !.result = Some(AllRetriesFailed(frame.last_error))]

\* PMSClient.report_factory_status_with_retry: the attempt of a waiting call
\* ends, or its sleep between two attempts does.  A call that has its
\* result resumes its caller.
PmsAttempt(Outcomes) ==
    \E t \in DOMAIN tasks, outcome \in Outcomes :
        LET frame == tasks[t]
            status == reported_status(frame)
            next == IF frame.sleeping THEN retry_next(frame)
                    ELSE retry_after(frame, outcome)
        IN  /\ running = None
            /\ frame.pc = "await_pms"
            /\ frame.sleeping => outcome = "accepted"
            /\ IF next.result # None
               THEN /\ SetTask(t, [next EXCEPT !.pc = after_pms(next)])
                    /\ running' = Some(t)
               ELSE /\ SetTask(t, next)
                    /\ UNCHANGED running
            /\ pms_status' = IF ~frame.sleeping /\ outcome = "accepted"
                              THEN Put(pms_status, frame.factory_id, status)
                              ELSE pms_status
            /\ calls' = [NoCalls EXCEPT !.pms_report =
                   IF frame.sleeping THEN {}
                   ELSE {[factory_id |-> frame.factory_id, status |-> status,
                          outcome |-> outcome]}]
            /\ UNCHANGED <<now, healthVars, riskVars, last_reading_times,
                           sensor_statuses, sm_factory_sensors, sm_factory_order,
                           manual_failures, previous_factory_statuses, busVars,
                           restart_threads, active_failovers, on_failover_callbacks,
                           failover_events,
                           recVars, loopVars, statusVars>>

\* An exception leaves the call: the persistence read of a risk assessment
\* raises while the backup is selected, or the task is cancelled while it
\* waits for PMS.  trigger_failover runs its finally block.
FailoverRaise ==
    \E t \in DOMAIN tasks :
        LET frame == tasks[t]
        IN  /\ \/ running = Some(t) /\ frame.pc = "select"
               \/ running = None /\ frame.pc = "await_pms"
            /\ SetTask(t, [frame EXCEPT
                   !.raised = TRUE,
                   !.pc = IF frame.op = "trigger_failover" THEN "finally" ELSE "done"])
            /\ running' = IF frame.op = "trigger_failover" THEN Some(t) ELSE None
            /\ calls' = NoCalls
            /\ UNCHANGED <<now, healthVars, riskVars, last_reading_times,
                           sensor_statuses, sm_factory_sensors, sm_factory_order,
                           manual_failures, previous_factory_statuses, busVars,
                           restart_threads, active_failovers, on_failover_callbacks,
                           failover_events, pms_status,
                           recVars, loopVars, statusVars>>

-----------------------------------------------------------------------------
(* The legacy heartbeat model: HeartbeatMonitor keeps, per factory, a status *)
(* UP / DEGRADED / DOWN driven by two persisted counters, and               *)
(* RecoveryManager brings a factory back to UP.                             *)

\* Config.recovery_consecutive_healthy_count
recovery_consecutive_healthy_count == 5

\* config.heartbeat_timeout_seconds
heartbeat_timeout_seconds == 3

\* The status manager, the heartbeat monitor and the documents as one value;
\* notified lists the arguments with which a method has called the timeout
\* callbacks.
Legacy == [statuses |-> factory_statuses, order |-> factory_order,
           health |-> factory_health, last |-> last_heartbeat_times,
           notified |-> <<>>]

SetLegacy(st) ==
    /\ factory_statuses' = st.statuses
    /\ factory_order' = st.order
    /\ factory_health' = st.health
    /\ last_heartbeat_times' = st.last

\* A heartbeat handler that would leave the missed-heartbeat counter alone.
hm_process_heartbeat_keeping_missed(st, factory_id, clock) ==
    LET reset == st.health
        statuses == get_or_create(st.statuses, factory_id)
        previous_status == statuses[factory_id]
        counted == IF previous_status # "UP"
                   THEN increment_consecutive_healthy(reset, factory_id)
                   ELSE reset_consecutive_healthy(reset, factory_id)
        consecutive_healthy == counted[factory_id].consecutive_healthy
        recovered == /\ previous_status # "UP"
                     /\ consecutive_healthy >= recovery_consecutive_healthy_count
        marked == IF recovered THEN transition_to(statuses, factory_id, "UP")
                  ELSE statuses
        health == IF recovered
                  THEN reset_consecutive_healthy(
                           persist_factory_status(counted, factory_id, "UP"),
                           factory_id)
                  ELSE counted
    IN  [st EXCEPT !.last = Put(@, factory_id, clock),
                   !.statuses = marked,
                   !.order = order_after(@, factory_id),
                   !.health = persist_factory_status(health, factory_id,
                                                     marked[factory_id])]

\* A heartbeat handler that would not reset the healthy-heartbeat counter
\* when it marks the factory UP.
hm_process_heartbeat_keeping_healthy(st, factory_id, clock) ==
    LET reset == reset_missed_heartbeats(st.health, factory_id)
        statuses == get_or_create(st.statuses, factory_id)
        previous_status == statuses[factory_id]
        counted == IF previous_status # "UP"
                   THEN increment_consecutive_healthy(reset, factory_id)
                   ELSE reset_consecutive_healthy(reset, factory_id)
        consecutive_healthy == counted[factory_id].consecutive_healthy
        recovered == /\ previous_status # "UP"
                     /\ consecutive_healthy >= recovery_consecutive_healthy_count
        marked == IF recovered THEN transition_to(statuses, factory_id, "UP")
                  ELSE statuses
        health == IF recovered
                  THEN persist_factory_status(counted, factory_id, "UP")
                  ELSE counted
    IN  [st EXCEPT !.last = Put(@, factory_id, clock),
                   !.statuses = marked,
                   !.order = order_after(@, factory_id),
                   !.health = persist_factory_status(health, factory_id,
                                                     marked[factory_id])]

\* HeartbeatMonitor.process_heartbeat
hm_process_heartbeat(st, factory_id, clock) ==
    LET reset == reset_missed_heartbeats(st.health, factory_id)
        statuses == get_or_create(st.statuses, factory_id)
        previous_status == statuses[factory_id]
        counted == IF previous_status # "UP"
                   THEN increment_consecutive_healthy(reset, factory_id)
                   ELSE reset_consecutive_healthy(reset, factory_id)
        consecutive_healthy == counted[factory_id].consecutive_healthy
        recovered == /\ previous_status # "UP"
                     /\ consecutive_healthy >= recovery_consecutive_healthy_count
        marked == IF recovered THEN transition_to(statuses, factory_id, "UP")
                  ELSE statuses
        health == IF recovered
                  THEN reset_consecutive_healthy(
                           persist_factory_status(counted, factory_id, "UP"),
                           factory_id)
                  ELSE counted
    IN  [st EXCEPT !.last = Put(@, factory_id, clock),
                   !.statuses = marked,
                   !.order = order_after(@, factory_id),
                   !.health = persist_factory_status(health, factory_id,
                                                     marked[factory_id])]

\* A timeout handler that would call the timeout callbacks at every check
\* that finds the factory at or above the threshold, DOWN already or not.
handle_timeout_notifying_always(st, factory_id) ==
    LET incremented == increment_missed_heartbeats(st.health, factory_id)
        missed_count == incremented[factory_id].missed_heartbeats
        health == reset_consecutive_healthy(incremented, factory_id)
        statuses == get_or_create(st.statuses, factory_id)
        created == [st EXCEPT !.statuses = statuses,
                              !.order = order_after(@, factory_id),
                              !.health = health]
        notification == [factory_id |-> factory_id,
                         timeout_type |-> "missed_heartbeats",
                         missed_count |-> missed_count]
    IN  IF missed_count >= missed_heartbeats_threshold
        THEN IF statuses[factory_id] # "DOWN"
             THEN [created EXCEPT
                      !.statuses = transition_to(statuses, factory_id, "DOWN"),
                      !.health = persist_factory_status(health, factory_id, "DOWN"),
                      !.notified = Append(@, [factory_id |-> factory_id,
                                              timeout_type |-> "missed_heartbeats",
                                              missed_count |-> missed_count])]
             ELSE [created EXCEPT !.notified = Append(@, notification)]
        ELSE IF statuses[factory_id] = "UP"
             THEN [created EXCEPT
                      !.statuses = transition_to(statuses, factory_id, "DEGRADED"),
                      !.health = persist_factory_status(health, factory_id,
                                                        "DEGRADED")]
             ELSE created

\* HeartbeatMonitor._handle_timeout
handle_timeout(st, factory_id) ==
    LET incremented == increment_missed_heartbeats(st.health, factory_id)
        missed_count == incremented[factory_id].missed_heartbeats
        health == reset_consecutive_healthy(incremented, factory_id)
        statuses == get_or_create(st.statuses, factory_id)
        created == [st EXCEPT !.statuses = statuses,
                              !.order = order_after(@, factory_id),
                              !.health = health]
    IN  IF missed_count >= missed_heartbeats_threshold
        THEN IF statuses[factory_id] # "DOWN"
             THEN [created EXCEPT
                      !.statuses = transition_to(statuses, factory_id, "DOWN"),
                      !.health = persist_factory_status(health, factory_id, "DOWN"),
                      !.notified = Append(@, [factory_id |-> factory_id,
                                              timeout_type |-> "missed_heartbeats",
                                              missed_count |-> missed_count])]
             ELSE created
        ELSE IF statuses[factory_id] = "UP"
             THEN [created EXCEPT
                      !.statuses = transition_to(statuses, factory_id, "DEGRADED"),
                      !.health = persist_factory_status(health, factory_id,
                                                        "DEGRADED")]
             ELSE created

\* HeartbeatMonitor.check_timeouts over the factories of ids, which are the
\* keys of _last_heartbeat_times still to visit; a factory's timeout touches
\* nothing of another factory.
RECURSIVE hm_check_timeouts_of(_, _, _)
hm_check_timeouts_of(st, ids, clock) ==
    IF ids = {} THEN st
    ELSE LET factory_id == CHOOSE f \in ids : TRUE
             time_since_heartbeat == clock - st.last[factory_id]
         IN  hm_check_timeouts_of(
                 IF time_since_heartbeat > heartbeat_timeout_seconds
                 THEN handle_timeout(st, factory_id) ELSE st,
                 ids \ {factory_id}, clock)

hm_check_timeouts(st, clock) == hm_check_timeouts_of(st, DOMAIN st.last, clock)

\* A heartbeat of factory_id is processed.
ProcessFactoryHeartbeat(F) ==
    \E f \in F :
        /\ running = None
        /\ SetLegacy(hm_process_heartbeat(Legacy, f, now))
        /\ calls' = [NoCalls EXCEPT !.transitions =
               transitions_made(factory_statuses, factory_statuses')]
        /\ UNCHANGED <<now, healthVars, sensor_risk_tracking, risk_history,
                       last_reading_times, sensor_statuses, sm_factory_sensors,
                       sm_factory_order, manual_failures, previous_factory_statuses,
                       busVars, orchVars, recovering_factories,
                       on_recovery_callbacks, loopVars, statusVars>>

\* The periodic timeout check of the heartbeat monitor.
CheckHeartbeatTimeouts ==
    /\ running = None
    /\ \A f \in DOMAIN factory_health : factory_health[f].missed_heartbeats < MaxMissed
    /\ SetLegacy(hm_check_timeouts(Legacy, now))
    /\ calls' = [NoCalls EXCEPT
           !.transitions = transitions_made(factory_statuses, factory_statuses'),
           !.timeout_callbacks = hm_check_timeouts(Legacy, now).notified]
    /\ UNCHANGED <<now, healthVars, sensor_risk_tracking, risk_history,
                   last_reading_times, sensor_statuses, sm_factory_sensors,
                   sm_factory_order, manual_failures, previous_factory_statuses,
                   busVars, orchVars, recovering_factories,
                   on_recovery_callbacks, loopVars, statusVars>>

\* A check_recovery that would not look at the in-memory status.
check_recovery_of_counter(statuses, health, factory_id) ==
    IF factory_id \notin DOMAIN statuses THEN FALSE
    ELSE IF factory_id \notin DOMAIN health THEN FALSE
    ELSE health[factory_id].consecutive_healthy >= recovery_consecutive_healthy_count

\* RecoveryManager.check_recovery
check_recovery(statuses, health, factory_id) ==
    IF factory_id \notin DOMAIN statuses THEN FALSE
    ELSE IF statuses[factory_id] = "UP" THEN FALSE
    ELSE IF factory_id \notin DOMAIN health THEN FALSE
    ELSE health[factory_id].consecutive_healthy >= recovery_consecutive_healthy_count

\* check_recovery(factory_id) is called.
CheckRecovery(F) ==
    \E f \in F :
        /\ running = None
        /\ calls' = [NoCalls EXCEPT !.check_recovery =
               {[factory_id |-> f,
                 result |-> check_recovery(factory_statuses, factory_health, f)]}]
        /\ UNCHANGED <<now, healthVars, riskVars, last_reading_times,
                       sensor_statuses, sm_factory_sensors, sm_factory_order,
                       manual_failures, previous_factory_statuses, busVars,
                       orchVars, recVars, loopVars, statusVars>>

\* The locals of one handle_recovery or check_all_recoveries call.  A scan
\* holds the factories its snapshot of the statuses shows DOWN or DEGRADED,
\* in dict order, and the index of the one it is at; while it awaits
\* handle_recovery, the frame holds the locals of that call too.
RecoveryFrame(op, factory_id) ==
    Frame(op, factory_id, "") @@
    [previous_status |-> None, snapshot |-> <<>>, i |-> 0]

\* handle_recovery: "Prevent duplicate recovery handling"
already_recovering_never(recovering, factory_id) == FALSE

already_recovering(recovering, factory_id) == factory_id \in recovering

\* A handle_recovery that would release the factory only when it returns
\* normally.
discard_recovering_unless_raised(recovering, frame) ==
    IF frame.raised THEN recovering ELSE recovering \ {frame.factory_id}

\* handle_recovery: finally: self._recovering_factories.discard(factory_id)
discard_recovering(recovering, frame) == recovering \ {frame.factory_id}

\* RecoveryManager.on_recovery
OnRecovery ==
    /\ running = None
    /\ Len(on_recovery_callbacks) < MaxCallbacks
    /\ on_recovery_callbacks' =
           Append(on_recovery_callbacks, Len(on_recovery_callbacks) + 1)
    /\ calls' = NoCalls
    /\ UNCHANGED <<now, healthVars, riskVars, last_reading_times, sensor_statuses,
                   sm_factory_sensors, sm_factory_order, manual_failures,
                   previous_factory_statuses, busVars, orchVars, factory_health,
                   last_heartbeat_times, recovering_factories, loopVars, statusVars>>

\* Task t enters handle_recovery with the locals of frame: the duplicate
\* guard.  A rejected call returns at once; the scan that awaited it goes on
\* with its next factory.
enter_handle_recovery(t, frame) ==
    IF already_recovering(recovering_factories, frame.factory_id)
    THEN /\ SetTask(t, IF frame.op = "check_all_recoveries"
                       THEN [frame EXCEPT !.pc = "scan", !.i = @ + 1]
                       ELSE [frame EXCEPT
                              !.pc = "done",
                              !.returned = Some([success |-> FALSE,
                                   message |-> "Recovery already in progress"])])
         /\ running' = IF frame.op = "check_all_recoveries" THEN Some(t) ELSE None
         /\ UNCHANGED recovering_factories
    ELSE /\ SetTask(t, [frame EXCEPT !.pc = "rec_mark_up"])
         /\ recovering_factories' = recovering_factories \cup {frame.factory_id}
         /\ running' = Some(t)

\* handle_recovery(factory_id) is called.
HandleRecovery(T, F) ==
    \E t \in T \ DOMAIN tasks, f \in F :
        /\ running = None
        /\ enter_handle_recovery(t, RecoveryFrame("handle_recovery", f))
        /\ calls' = NoCalls
        /\ UNCHANGED <<now, healthVars, riskVars, last_reading_times,
                       sensor_statuses, sm_factory_sensors, sm_factory_order,
                       manual_failures, previous_factory_statuses, busVars,
                       restart_threads, active_failovers, on_failover_callbacks,
                       failover_events, pms_status, factory_health,
                       last_heartbeat_times, on_recovery_callbacks, loopVars, statusVars>>

\* check_all_recoveries() is called: the snapshot of the statuses.
CheckAllRecoveries(T) ==
    \E t \in T \ DOMAIN tasks :
        /\ running = None
        /\ SetTask(t, [RecoveryFrame("check_all_recoveries", MissingId) EXCEPT
               !.pc = "scan", !.i = 1,
               !.snapshot = SelectSeq(factory_order, LAMBDA f :
                                factory_statuses[f] \in {"DOWN", "DEGRADED"})])
        /\ running' = Some(t)
        /\ calls' = NoCalls
        /\ UNCHANGED <<now, healthVars, riskVars, last_reading_times,
                       sensor_statuses, sm_factory_sensors, sm_factory_order,
                       manual_failures, previous_factory_statuses, busVars,
                       restart_threads, active_failovers, on_failover_callbacks,
                       failover_events, pms_status, recVars, loopVars, statusVars>>

\* f"Factory recovered from {previous_status.value}"
RecoveredFrom(previous_status) == "Factory recovered from " \o previous_status

\* The running task executes its next statement of handle_recovery or of
\* the loop of check_all_recoveries.
RecoveryStep ==
    \E t \in DOMAIN tasks :
        LET frame == tasks[t]
            f == frame.factory_id
            Goto(pc) == SetTask(t, [frame EXCEPT !.pc = pc])
            Quiet == calls' = NoCalls
        IN  /\ running = Some(t)
            /\ frame.op \in {"handle_recovery", "check_all_recoveries"}
            /\ CASE frame.pc = "scan" ->
                     /\ IF frame.i > Len(frame.snapshot)
                        THEN /\ Goto("done") /\ running' = None
                             /\ UNCHANGED recovering_factories
                        ELSE IF check_recovery(factory_statuses, factory_health,
                                               frame.snapshot[frame.i])
                        THEN enter_handle_recovery(t, [frame EXCEPT
                                 !.factory_id = frame.snapshot[frame.i],
                                 !.previous_status = None, !.attempt = 0,
                                 !.result = None, !.returned = None])
                        ELSE /\ SetTask(t, [frame EXCEPT !.i = @ + 1])
                             /\ UNCHANGED <<running, recovering_factories>>
                     /\ Quiet
                     /\ UNCHANGED <<factory_statuses, factory_order, factory_health,
                                    failover_events>>
                 [] frame.pc = "rec_mark_up" ->
                     LET statuses == get_or_create(factory_statuses, f)
                     IN  /\ SetTask(t, [frame EXCEPT
                                !.previous_status = Some(statuses[f]),
                                !.pc = "rec_log"])
                         /\ factory_statuses' = transition_to(statuses, f, "UP")
                         /\ factory_order' = order_after(factory_order, f)
                         /\ factory_health' =
                                reset_missed_heartbeats(
                                    reset_consecutive_healthy(
                                        persist_factory_status(factory_health, f, "UP"),
                                        f),
                                    f)
                         /\ calls' = [NoCalls EXCEPT
                                !.update_factory_status =
                                    {[factory_id |-> f, status |-> "UP",
                                      risk_level |-> "LOW"]},
                                !.transitions = transitions_made(
                                    factory_statuses, factory_statuses')]
                         /\ UNCHANGED <<running, recovering_factories, failover_events>>
                 [] frame.pc = "rec_log" ->
                     /\ failover_events' = Append(failover_events,
                            [factory_id |-> f,
                             reason |-> RecoveredFrom(Val(frame.previous_status)),
                             target_factory |-> None])
                     /\ Goto("rec_pms") /\ Quiet
                     /\ UNCHANGED <<factory_statuses, factory_order, factory_health,
                                    running, recovering_factories>>
                 [] frame.pc = "rec_pms" ->
                     /\ SetTask(t, [frame EXCEPT !.pc = "await_pms", !.attempt = 1])
                     /\ running' = None /\ Quiet
                     /\ UNCHANGED <<factory_statuses, factory_order, factory_health,
                                    recovering_factories, failover_events>>
                 [] frame.pc = "rec_callbacks" ->
                     /\ calls' = [NoCalls EXCEPT !.recovery_callbacks =
                            [i \in DOMAIN on_recovery_callbacks |->
                                [callback |-> on_recovery_callbacks[i],
                                 factory_id |-> f,
                                 previous_status |-> Val(frame.previous_status)]]]
                     /\ Goto("rec_return")
                     /\ UNCHANGED <<factory_statuses, factory_order, factory_health,
                                    running, recovering_factories, failover_events>>
                 [] frame.pc = "rec_return" ->
                     /\ SetTask(t, [frame EXCEPT
                            !.pc = "rec_finally",
                            !.returned = Some([success |-> TRUE, factory_id |-> f,
                                 previous_status |-> Val(frame.previous_status),
                                 pms_response |-> Val(frame.result)])])
                     /\ Quiet
                     /\ UNCHANGED <<factory_statuses, factory_order, factory_health,
                                    running, recovering_factories, failover_events>>
                 [] frame.pc = "rec_finally" ->
                     /\ recovering_factories' =
                            discard_recovering(recovering_factories, frame)
                     /\ IF frame.op = "check_all_recoveries" /\ ~frame.raised
                        THEN /\ SetTask(t, [frame EXCEPT !.pc = "scan", !.i = @ + 1])
                             /\ UNCHANGED running
                        ELSE /\ Goto("done") /\ running' = None
                     /\ Quiet
                     /\ UNCHANGED <<factory_statuses, factory_order, factory_health,
                                    failover_events>>
            /\ UNCHANGED <<now, healthVars, sensor_risk_tracking, risk_history,
                           last_reading_times, sensor_statuses, sm_factory_sensors,
                           sm_factory_order, manual_failures,
                           previous_factory_statuses, busVars, restart_threads,
                           active_failovers, on_failover_callbacks, pms_status,
                           last_heartbeat_times, on_recovery_callbacks, loopVars, statusVars>>

\* An exception leaves handle_recovery: a persistence operation raises when
\* the factory is marked UP, or the task is cancelled while it waits for
\* PMS.  The finally block runs, and the exception ends a scan as well.
RecoveryRaise ==
    \E t \in DOMAIN tasks :
        LET frame == tasks[t]
        IN  /\ frame.op \in {"handle_recovery", "check_all_recoveries"}
            /\ \/ running = Some(t) /\ frame.pc = "rec_mark_up"
               \/ running = None /\ frame.pc = "await_pms"
            /\ SetTask(t, [frame EXCEPT !.raised = TRUE, !.pc = "rec_finally"])
            /\ running' = Some(t)
            /\ calls' = NoCalls
            /\ UNCHANGED <<now, healthVars, riskVars, last_reading_times,
                           sensor_statuses, sm_factory_sensors, sm_factory_order,
                           manual_failures, previous_factory_statuses, busVars,
                           restart_threads, active_failovers, on_failover_callbacks,
                           failover_events, pms_status, recVars, loopVars, statusVars>>

-----------------------------------------------------------------------------
(* The system *)

\* The clock advances.  Each store is observed at multiples of its own
\* timeout (step), so that an age can be below, exactly at and above it.
Tick(step, max) ==
    /\ now + step <= max
    /\ now' = now + step
    /\ calls' = NoCalls
    /\ UNCHANGED <<healthVars, riskVars, last_reading_times,
                   sensor_statuses, sm_factory_sensors, sm_factory_order,
                   manual_failures, previous_factory_statuses, busVars, orchVars,
                   recVars, loopVars, statusVars>>

\* Nothing has been persisted about a factory, no heartbeat has been
\* processed, no recovery is handled, and the loops have not been started.
InitRest ==
    /\ factory_health = <<>> /\ last_heartbeat_times = <<>>
    /\ recovering_factories = {} /\ on_recovery_callbacks = <<>>
    /\ shutdown_event = FALSE /\ loop_tasks = <<>> /\ kafka_clients = <<>>
    /\ transition_history = <<>> /\ on_transition_callbacks = <<>>
    /\ global_callbacks = <<>>

Init ==
    /\ now = 0
    /\ sensors = <<>>
    /\ sensors_order = <<>>
    /\ factory_sensors = <<>>
    /\ failed_sensors = {}
    /\ sensor_risk_tracking = <<>>
    /\ risk_history = <<>>
    /\ factory_statuses = <<>> /\ factory_order = <<>>
    /\ last_reading_times = <<>>
    /\ sensor_statuses = <<>>
    /\ sm_factory_sensors = <<>>
    /\ sm_factory_order = <<>>
    /\ manual_failures = <<>>
    /\ previous_factory_statuses = <<>>
    /\ calls = NoCalls
    /\ bus = <<>> /\ offset = 0 /\ at_risk_topic = <<>>
    /\ restart_threads = <<>> /\ tasks = <<>> /\ running = None
    /\ active_failovers = {} /\ on_failover_callbacks = <<>>
    /\ failover_events = <<>> /\ pms_status = <<>>
    /\ InitRest

NextHealth(S, F) ==
    \/ RegisterSensor(S, F)
    \/ HandleHeartbeat(S, F)
    \/ HandleSensorFailure(S, F)
    \/ CheckTimeouts
    \/ HandleFactoryRestart(S, F)

Next ==
    \/ NextHealth(SensorIds, FactoryIds)
    \/ Tick(heartbeat_timeout, MaxTime)

Spec == Init /\ [][Next]_vars

NextMonitor(S, F) ==
    \/ ProcessSensorReading(S, F)
    \/ CheckSensorTimeouts
    \/ UpdateSensorStatus(S, F)

NextSM ==
    \/ NextMonitor(SensorIds, FactoryIds)
    \/ Tick(sensor_timeout_seconds, MaxTimeSM)

SpecSM == Init /\ [][NextSM]_vars

\* The process of main.py: the two loops, the API that overrides a sensor,
\* and the shutdown.  A task that can run is run.
OneSensor == {CHOOSE s \in SensorIds : TRUE}
OneFactory == {CHOOSE f \in FactoryIds : TRUE}

NextMain ==
    \/ LifespanStartup
    \/ ConsumerStep(OneSensor, OneFactory)
    \/ MonitoringStep
    \/ UpdateSensorStatus(OneSensor, OneFactory)
    \/ Tick(sensor_timeout_seconds, MaxTimeSM)
    \/ LifespanShutdown

SpecMain ==
    /\ Init /\ [][NextMain]_vars
    /\ WF_vars(ConsumerStep(OneSensor, OneFactory))
    /\ WF_vars(MonitoringStep)

\* Both stores side by side, each fed for one sensor of one factory.

NextStores ==
    \/ NextHealth(OneSensor, OneFactory)
    \/ NextMonitor(OneSensor, OneFactory)
    \/ Tick(sensor_timeout_seconds, MaxTimeStores)

SpecStores == Init /\ [][NextStores]_vars

\* The health of one factory that tracks total sensors, of which ok are OK
\* and warning are WARNING, as the readings of these sensors leave it before
\* the factory's health is computed.
InitAgg ==
    /\ now = 0
    /\ sensors = <<>> /\ sensors_order = <<>>
    /\ factory_sensors = <<>> /\ failed_sensors = {}
    /\ sensor_risk_tracking = <<>> /\ risk_history = <<>> /\ factory_statuses = <<>>
    /\ factory_order = <<>>
    /\ \E f \in OneFactory, total \in 1..MaxTotal :
         \E ok_count \in 0..total : \E warning_count \in 0..(total - ok_count) :
           /\ sm_factory_sensors = (f :> (1..total))
           /\ sm_factory_order = <<f>>
           /\ sensor_statuses =
                  [s \in 1..total |->
                      IF s <= ok_count THEN "OK"
                      ELSE IF s <= ok_count + warning_count THEN "WARNING"
                      ELSE "FAILED"]
           /\ last_reading_times = [s \in 1..total |-> 0]
    /\ manual_failures = <<>> /\ previous_factory_statuses = <<>>
    /\ calls = NoCalls
    /\ bus = <<>> /\ offset = 0 /\ at_risk_topic = <<>>
    /\ restart_threads = <<>> /\ tasks = <<>> /\ running = None
    /\ active_failovers = {} /\ on_failover_callbacks = <<>>
    /\ failover_events = <<>> /\ pms_status = <<>>
    /\ InitRest

\* _update_factory_health of a tracked factory
UpdateFactoryHealth ==
    \E f \in DOMAIN sm_factory_sensors :
        /\ SetMonitor(update_factory_health(Monitor, f))
        /\ UNCHANGED <<now, healthVars, riskVars, busVars, orchVars,
                       recVars, loopVars, statusVars>>

NextAgg == UpdateFactoryHealth

SpecAgg == InitAgg /\ [][NextAgg]_vars

\* Risk assessment of one factory, from every state of the status manager:
\* a factory it does not know yet, or one that is UP, DEGRADED or DOWN.
InitRisk ==
    /\ now = 0
    /\ sensors = <<>> /\ sensors_order = <<>>
    /\ factory_sensors = <<>> /\ failed_sensors = {}
    /\ sensor_risk_tracking = <<>> /\ risk_history = <<>>
    /\ \E known \in SUBSET FactoryIds :
         /\ factory_statuses \in [known -> FactoryStatus]
         /\ factory_order = SortedSeq(known)
    /\ last_reading_times = <<>> /\ sensor_statuses = <<>>
    /\ sm_factory_sensors = <<>> /\ sm_factory_order = <<>>
    /\ manual_failures = <<>> /\ previous_factory_statuses = <<>>
    /\ calls = NoCalls
    /\ bus = <<>> /\ offset = 0 /\ at_risk_topic = <<>>
    /\ restart_threads = <<>> /\ tasks = <<>> /\ running = None
    /\ active_failovers = {} /\ on_failover_callbacks = <<>>
    /\ failover_events = <<>> /\ pms_status = <<>>
    /\ InitRest

NextRisk ==
    \/ PredictFactoryRisk(OneFactory)
    \/ ShouldPreemptivelyRebalance(OneFactory)

SpecRisk == InitRisk /\ [][NextRisk]_vars

\* The records the Kafka listener can find on its topics about one sensor of
\* one factory: readings below, at and above the listener's threshold of 70,
\* a sensor failure and a factory restart that lists the sensor.
Record(topic, value) ==
    [topic |-> topic, message_type |-> None, value |-> value, json |-> "object"]

ReadingRecord(s, f, reading) ==
    Record("factory.readings", [sensorId |-> s, factoryId |-> f, reading |-> reading])

BusRecords ==
    UNION {{ReadingRecord(s, f, Some(60)), ReadingRecord(s, f, Some(70)),
            ReadingRecord(s, f, Some(80)),
            Record("factory.sensor-failure",
                   [sensorId |-> s, factoryId |-> f, reason |-> ReasonStr("fault")]),
            Record("factory.restart",
                   [factoryId |-> f, recoveredSensors |-> <<s>>])}
           : s \in OneSensor, f \in OneFactory}

\* The listener starts consuming with empty trackers, the sensor being
\* registered by a heartbeat it has sent.
InitBusWith(records, n) ==
    /\ now = 0
    /\ \E s \in OneSensor, f \in OneFactory :
         LET st == process_heartbeat(
                       [sensors |-> <<>>, order |-> <<>>,
                        factory_sensors |-> <<>>, failed |-> {}],
                       s, f, "unknown", Some(Naive(0)), 0)
         IN  /\ sensors = st.sensors /\ sensors_order = st.order
             /\ factory_sensors = st.factory_sensors /\ failed_sensors = st.failed
    /\ sensor_risk_tracking = <<>> /\ risk_history = <<>> /\ factory_statuses = <<>>
    /\ factory_order = <<>>
    /\ last_reading_times = <<>> /\ sensor_statuses = <<>>
    /\ sm_factory_sensors = <<>> /\ sm_factory_order = <<>>
    /\ manual_failures = <<>> /\ previous_factory_statuses = <<>>
    /\ calls = NoCalls
    /\ bus \in [1..n -> records]
    /\ offset = 0 /\ at_risk_topic = <<>>
    /\ restart_threads = <<>> /\ tasks = <<>> /\ running = None
    /\ active_failovers = {} /\ on_failover_callbacks = <<>>
    /\ failover_events = <<>> /\ pms_status = <<>>
    /\ InitRest

InitBus == InitBusWith(BusRecords, MaxBus)

NextBus == Consume

\* Records as they arrive: values that do not decode, values that are no
\* objects, objects on an unknown topic, objects that lack a field, and
\* well-formed heartbeats, readings, failures and restarts of one sensor.
RawRecords ==
    UNION {LET heartbeat == [sensorId |-> s, factoryId |-> f, tier |-> "unknown",
                             timestamp |-> IsoString(0, FALSE)]
               reading == [sensorId |-> s, factoryId |-> f, reading |-> Some(60)]
               failure == [sensorId |-> s, factoryId |-> f,
                           reason |-> ReasonStr("fault")]
               restart == [factoryId |-> f, recoveredSensors |-> <<s>>]
           IN  {[Record("factory.heartbeat", <<>>) EXCEPT !.json = "undecodable"],
                [Record("factory.heartbeat", <<>>) EXCEPT !.json = "array"],
                Record("factory.unknown", heartbeat),
                Record("factory.heartbeat", heartbeat),
                Record("factory.heartbeat", [heartbeat EXCEPT !.sensorId = MissingId]),
                Record("factory.heartbeat", [heartbeat EXCEPT !.factoryId = MissingId]),
                Record("factory.heartbeat", [heartbeat EXCEPT !.timestamp = NoTimestamp]),
                Record("factory.readings", reading),
                Record("factory.readings", [reading EXCEPT !.sensorId = MissingId]),
                Record("factory.readings", [reading EXCEPT !.reading = None]),
                Record("factory.sensor-failure", failure),
                Record("factory.sensor-failure", [failure EXCEPT !.sensorId = MissingId]),
                Record("factory.sensor-failure", [failure EXCEPT !.reason = ReasonAbsent]),
                Record("factory.restart", restart),
                Record("factory.restart", [restart EXCEPT !.factoryId = MissingId])}
           : s \in OneSensor, f \in OneFactory}

InitIngest == InitBusWith(RawRecords, MaxRaw)

\* The loop of the Kafka listener: it is started, polls records, nothing
\* or a bus error, and is stopped.
NextIngest ==
    \/ ListenerStart
    \/ ListenerConsume
    \/ ListenerIdle
    \/ ListenerBusError
    \/ ListenerStop
    \/ ListenerExit
    \/ Tick(heartbeat_timeout, MaxTime)

SpecIngest == InitIngest /\ [][NextIngest]_vars

\* The loop takes its next step.
SpecIngestFair ==
    /\ SpecIngest
    /\ WF_vars(ListenerConsume \/ ListenerIdle \/ ListenerBusError \/ ListenerExit)

\* The listener starts consuming right after the service has started: no
\* heartbeat has been processed yet, so the health store knows no sensor.
InitCold ==
    /\ now = 0
    /\ sensors = <<>> /\ sensors_order = <<>>
    /\ factory_sensors = <<>> /\ failed_sensors = {}
    /\ sensor_risk_tracking = <<>> /\ risk_history = <<>> /\ factory_statuses = <<>>
    /\ factory_order = <<>>
    /\ last_reading_times = <<>> /\ sensor_statuses = <<>>
    /\ sm_factory_sensors = <<>> /\ sm_factory_order = <<>>
    /\ manual_failures = <<>> /\ previous_factory_statuses = <<>>
    /\ calls = NoCalls
    /\ bus \in [1..MaxRaw -> RawRecords]
    /\ offset = 0 /\ at_risk_topic = <<>>
    /\ restart_threads = <<>> /\ tasks = <<>> /\ running = None
    /\ active_failovers = {} /\ on_failover_callbacks = <<>>
    /\ failover_events = <<>> /\ pms_status = <<>>
    /\ InitRest

SpecCold == InitCold /\ [][NextIngest]_vars

\* Two restart handlers on two threads.  The sensors are registered, a
\* sensor-failure event has marked each of them FAILED, and some of them
\* have a risk tracker.
InitRace ==
    /\ now = 0
    /\ \E f \in OneFactory, tracked \in SUBSET SensorIds :
         /\ sensors = [s \in SensorIds |->
                          [SensorHealth(s, f, "unknown") EXCEPT
                              !.is_healthy = FALSE,
                              !.failure_reason = Some("fault"),
                              !.failure_timestamp = Some(Naive(0))]]
         /\ sensors_order = SortedSeq(SensorIds)
         /\ factory_sensors = (f :> SensorIds)
         /\ failed_sensors = SensorIds
         /\ sensor_risk_tracking = [s \in tracked |-> SensorRiskStatus(s, f)]
    /\ risk_history = <<>> /\ factory_statuses = <<>> /\ factory_order = <<>>
    /\ last_reading_times = <<>> /\ sensor_statuses = <<>>
    /\ sm_factory_sensors = <<>> /\ sm_factory_order = <<>>
    /\ manual_failures = <<>> /\ previous_factory_statuses = <<>>
    /\ calls = NoCalls
    /\ bus = <<>> /\ offset = 0 /\ at_risk_topic = <<>>
    /\ restart_threads = <<>> /\ tasks = <<>> /\ running = None
    /\ active_failovers = {} /\ on_failover_callbacks = <<>>
    /\ failover_events = <<>> /\ pms_status = <<>>
    /\ InitRest

\* The failover manager with the status manager in any state: each factory
\* unknown, UP, DEGRADED or DOWN, the known ones created in any order.
Orders(S) == {q \in [1..Cardinality(S) -> S] : \A i, j \in DOMAIN q : i # j => q[i] # q[j]}

InitFailoverWith(known_sets) ==
    /\ now = 0
    /\ sensors = <<>> /\ sensors_order = <<>>
    /\ factory_sensors = <<>> /\ failed_sensors = {}
    /\ sensor_risk_tracking = <<>> /\ risk_history = <<>>
    /\ \E known \in known_sets :
         /\ factory_statuses \in [known -> FactoryStatus]
         /\ factory_order \in Orders(known)
    /\ last_reading_times = <<>> /\ sensor_statuses = <<>>
    /\ sm_factory_sensors = <<>> /\ sm_factory_order = <<>>
    /\ manual_failures = <<>> /\ previous_factory_statuses = <<>>
    /\ calls = NoCalls
    /\ bus = <<>> /\ offset = 0 /\ at_risk_topic = <<>>
    /\ restart_threads = <<>> /\ tasks = <<>> /\ running = None
    /\ active_failovers = {} /\ on_failover_callbacks = <<>>
    /\ failover_events = <<>> /\ pms_status = <<>>
    /\ InitRest

InitFailover == InitFailoverWith(SUBSET FactoryIds)

NextFailover ==
    \/ OnFailover
    \/ TriggerFailover(Tasks, FactoryIds)
    \/ PreemptiveRebalance(Tasks, FactoryIds)
    \/ FailoverStep
    \/ PmsAttempt(PmsAnswers)
    \/ FailoverRaise

SpecFailover == InitFailover /\ [][NextFailover]_vars

\* One failover of one factory, with NumBackupFactories factories known to
\* the status manager.
InitBackup == InitFailoverWith({1..NumBackupFactories})

OneTask == {CHOOSE t \in Tasks : TRUE}

NextBackup ==
    \/ TriggerFailover(OneTask, OneFactory)
    \/ FailoverStep
    \/ PmsAttempt(PmsAnswers)
    \/ FailoverRaise

SpecBackup == InitBackup /\ [][NextBackup]_vars

NextRace ==
    \/ StartRestart(SensorIds, OneFactory)
    \/ RestartStep

SpecRace == InitRace /\ [][NextRace]_vars

SpecBus == InitBus /\ [][NextBus]_vars

\* The recovery manager with the status manager and the documents in any
\* state: each factory unknown, UP, DEGRADED or DOWN, and its document
\* absent or holding a counter of healthy heartbeats below, just below and
\* at the recovery threshold.
InitRecovery ==
    /\ now = 0
    /\ sensors = <<>> /\ sensors_order = <<>>
    /\ factory_sensors = <<>> /\ failed_sensors = {}
    /\ sensor_risk_tracking = <<>> /\ risk_history = <<>>
    /\ \E known \in SUBSET FactoryIds :
         /\ factory_statuses \in [known -> FactoryStatus]
         /\ factory_order = SortedSeq(known)
         /\ \E documented \in SUBSET known :
              \E counters \in [documented ->
                      {0, recovery_consecutive_healthy_count - 1,
                       recovery_consecutive_healthy_count}] :
                 factory_health =
                     [f \in documented |->
                         [status |-> Some(factory_statuses[f]),
                          consecutive_healthy |-> counters[f],
                          missed_heartbeats |-> 0]]
    /\ last_reading_times = <<>> /\ sensor_statuses = <<>>
    /\ sm_factory_sensors = <<>> /\ sm_factory_order = <<>>
    /\ manual_failures = <<>> /\ previous_factory_statuses = <<>>
    /\ calls = NoCalls
    /\ bus = <<>> /\ offset = 0 /\ at_risk_topic = <<>>
    /\ restart_threads = <<>> /\ tasks = <<>> /\ running = None
    /\ active_failovers = {} /\ on_failover_callbacks = <<>>
    /\ failover_events = <<>> /\ pms_status = <<>>
    /\ last_heartbeat_times = <<>>
    /\ recovering_factories = {} /\ on_recovery_callbacks = <<>>
    /\ shutdown_event = FALSE /\ loop_tasks = <<>> /\ kafka_clients = <<>>
    /\ transition_history = <<>> /\ on_transition_callbacks = <<>>
    /\ global_callbacks = <<>>

NextRecovery ==
    \/ OnRecovery
    \/ CheckRecovery(FactoryIds)
    \/ HandleRecovery(Tasks, OneFactory)
    \/ CheckAllRecoveries(Tasks)
    \/ RecoveryStep
    \/ PmsAttempt(PmsAnswers)
    \/ RecoveryRaise

SpecRecovery == InitRecovery /\ [][NextRecovery]_vars

\* The heartbeats of one factory, the periodic timeout check, and the
\* recovery manager, from the start of the process.
NextHeartbeat ==
    \/ ProcessFactoryHeartbeat(OneFactory)
    \/ CheckHeartbeatTimeouts
    \/ Tick(heartbeat_timeout_seconds, MaxTimeHeartbeat)
    \/ HandleRecovery(Tasks, OneFactory)
    \/ CheckAllRecoveries(Tasks)
    \/ RecoveryStep
    \/ PmsAttempt(PmsAnswers)
    \/ RecoveryRaise

SpecHeartbeat == Init /\ [][NextHeartbeat]_vars

\* The heartbeat monitor alone: the heartbeats of one factory and the
\* periodic timeout check of start_monitoring, which runs every second.
NextLegacy ==
    \/ ProcessFactoryHeartbeat(OneFactory)
    \/ CheckHeartbeatTimeouts
    \/ Tick(heartbeat_timeout_seconds, MaxTimeLegacy)

SpecLegacy == Init /\ [][NextLegacy]_vars /\ WF_vars(CheckHeartbeatTimeouts)

\* A factory has sent one heartbeat and stays silent from then on: the
\* timeout checks take it to DOWN, where it stays, and the failover scan
\* is run again and again.
InitSilent ==
    /\ now = 0
    /\ sensors = <<>> /\ sensors_order = <<>>
    /\ factory_sensors = <<>> /\ failed_sensors = {}
    /\ sensor_risk_tracking = <<>> /\ risk_history = <<>>
    /\ \E f \in OneFactory :
         LET st == hm_process_heartbeat(
                       [statuses |-> <<>>, order |-> <<>>, health |-> <<>>,
                        last |-> <<>>, notified |-> <<>>], f, 0)
         IN  /\ factory_statuses = st.statuses /\ factory_order = st.order
             /\ factory_health = st.health /\ last_heartbeat_times = st.last
    /\ last_reading_times = <<>> /\ sensor_statuses = <<>>
    /\ sm_factory_sensors = <<>> /\ sm_factory_order = <<>>
    /\ manual_failures = <<>> /\ previous_factory_statuses = <<>>
    /\ calls = NoCalls
    /\ bus = <<>> /\ offset = 0 /\ at_risk_topic = <<>>
    /\ restart_threads = <<>> /\ tasks = <<>> /\ running = None
    /\ active_failovers = {} /\ on_failover_callbacks = <<>>
    /\ failover_events = <<>> /\ pms_status = <<>>
    /\ recovering_factories = {} /\ on_recovery_callbacks = <<>>
    /\ shutdown_event = FALSE /\ loop_tasks = <<>> /\ kafka_clients = <<>>
    /\ transition_history = <<>> /\ on_transition_callbacks = <<>>
    /\ global_callbacks = <<>>

NextScan ==
    \/ CheckHeartbeatTimeouts
    \/ Tick(heartbeat_timeout_seconds, MaxTimeHeartbeat)
    \/ CheckAndTriggerFailovers(Tasks)
    \/ FailoverStep
    \/ PmsAttempt(PmsAnswers)
    \/ FailoverRaise

SpecScan == InitSilent /\ [][NextScan]_vars

\* Failovers and recoveries of one factory as tasks of one event loop: a
\* call runs until it awaits PMS, and another call can run meanwhile.
NextBoth ==
    \/ TriggerFailover(Tasks, OneFactory)
    \/ HandleRecovery(Tasks, OneFactory)
    \/ FailoverStep
    \/ RecoveryStep
    \/ PmsAttempt(PmsAnswers)

SpecBoth == Init /\ [][NextBoth]_vars

-----------------------------------------------------------------------------
(* The status state machines with their histories and callbacks *)

\* The callbacks that get registered: one returns, the other raises an
\* Exception at every call.
TransitionCallbacks == {"callback", "raising_callback"}

\* FactoryStatusStateMachine.__init__
FactoryStatusStateMachine(factory_id) ==
    [factory_id |-> factory_id, current_status |-> "UP",
     transition_history |-> <<>>, on_transition_callbacks |-> <<>>]

\* The state machine of factory f as one value.
StateMachine(f) ==
    [factory_id |-> f, current_status |-> factory_statuses[f],
     transition_history |-> transition_history[f],
     on_transition_callbacks |-> on_transition_callbacks[f]]

\* The status manager as one value.
Manager ==
    [factories |-> [f \in DOMAIN transition_history |-> StateMachine(f)],
     order |-> factory_order,
     global_callbacks |-> global_callbacks]

SetManager(mgr) ==
    /\ factory_statuses' =
           [f \in DOMAIN mgr.factories |-> mgr.factories[f].current_status]
    /\ factory_order' = mgr.order
    /\ transition_history' =
           [f \in DOMAIN mgr.factories |-> mgr.factories[f].transition_history]
    /\ on_transition_callbacks' =
           [f \in DOMAIN mgr.factories |->
               mgr.factories[f].on_transition_callbacks]
    /\ global_callbacks' = mgr.global_callbacks

\* FactoryStatusStateMachine.on_transition
fsm_on_transition(sm, callback) ==
    [sm EXCEPT !.on_transition_callbacks = Append(@, callback)]

\* A transition_to that would not look at the current status.
fsm_transition_to_appending_always(sm, new_status, reason, clock) ==
    LET old_status == sm.current_status
        transition == [from_status |-> old_status, to_status |-> new_status,
                       timestamp |-> clock, reason |-> reason]
    IN  [sm |-> [sm EXCEPT !.current_status = new_status,
                           !.transition_history = Append(@, transition)],
         returned |-> TRUE,
         invoked |-> [i \in DOMAIN sm.on_transition_callbacks |->
                         [callback |-> sm.on_transition_callbacks[i],
                          factory_id |-> sm.factory_id,
                          old_status |-> old_status,
                          new_status |-> new_status,
                          reason |-> reason]]]

\* FactoryStatusStateMachine.transition_to: the state machine afterwards,
\* what the call returns, and the calls of the callbacks it makes.  A
\* callback that raises has been called, and the next one is called.
fsm_transition_to(sm, new_status, reason, clock) ==
    IF new_status = sm.current_status
    THEN [sm |-> sm, returned |-> FALSE, invoked |-> <<>>]
    ELSE LET old_status == sm.current_status
             transition == [from_status |-> old_status, to_status |-> new_status,
                            timestamp |-> clock, reason |-> reason]
         IN  [sm |-> [sm EXCEPT !.current_status = new_status,
                                !.transition_history = Append(@, transition)],
              returned |-> TRUE,
              invoked |-> [i \in DOMAIN sm.on_transition_callbacks |->
                              [callback |-> sm.on_transition_callbacks[i],
                               factory_id |-> sm.factory_id,
                               old_status |-> old_status,
                               new_status |-> new_status,
                               reason |-> reason]]]

\* mark_up, mark_degraded and mark_down with their default reasons.
mark(sm, new_status, clock) ==
    fsm_transition_to(sm, new_status,
                      CASE new_status = "UP" -> "healthy"
                        [] new_status = "DEGRADED" -> "intermittent issues"
                        [] new_status = "DOWN" -> "failure detected",
                      clock)

\* FactoryStatusManager.get_or_create, with the callbacks: a new state
\* machine gets the global callbacks, in the order of their registration.
manager_get_or_create(mgr, factory_id) ==
    IF factory_id \in DOMAIN mgr.factories THEN mgr
    ELSE [mgr EXCEPT
             !.factories = @ @@ (factory_id :>
                 [FactoryStatusStateMachine(factory_id) EXCEPT
                     !.on_transition_callbacks = mgr.global_callbacks]),
             !.order = order_after(@, factory_id)]

\* FactoryStatusManager.on_any_transition
on_any_transition(mgr, callback) ==
    [mgr EXCEPT
        !.global_callbacks = Append(@, callback),
        !.factories = [f \in DOMAIN @ |-> fsm_on_transition(@[f], callback)]]

\* What the operations on the state machines leave alone.
StatusRest ==
    UNCHANGED <<now, healthVars, sensor_risk_tracking, risk_history,
                last_reading_times, sensor_statuses, sm_factory_sensors,
                sm_factory_order, manual_failures, previous_factory_statuses,
                busVars, orchVars, recVars, loopVars>>

\* get_or_create(factory_id) is called.
GetOrCreate(F) ==
    \E f \in F :
        /\ SetManager(manager_get_or_create(Manager, f))
        /\ calls' = NoCalls
        /\ StatusRest

\* mark_up, mark_degraded or mark_down of a state machine is called.
MarkStatus(F) ==
    \E f \in F \cap DOMAIN transition_history : \E new_status \in FactoryStatus :
        LET result == mark(StateMachine(f), new_status, now)
        IN  /\ Len(transition_history[f]) < MaxTransitions
            /\ SetManager([Manager EXCEPT !.factories[f] = result.sm])
            /\ calls' = [NoCalls EXCEPT
                   !.transition_to = <<[factory_id |-> f,
                                        new_status |-> new_status,
                                        returned |-> result.returned]>>,
                   !.transition_callbacks = result.invoked]
            /\ StatusRest

\* on_transition(callback) of a state machine is called.
OnTransition(F) ==
    \E f \in F \cap DOMAIN transition_history : \E callback \in TransitionCallbacks :
        /\ Len(on_transition_callbacks[f]) < MaxCallbacks
        /\ SetManager([Manager EXCEPT
               !.factories[f] = fsm_on_transition(@, callback)])
        /\ calls' = NoCalls
        /\ StatusRest

\* on_any_transition(callback) is called.
OnAnyTransition ==
    \E callback \in TransitionCallbacks :
        /\ Len(global_callbacks) < MaxCallbacks
        /\ \A f \in DOMAIN on_transition_callbacks :
               Len(on_transition_callbacks[f]) < MaxCallbacks
        /\ SetManager(on_any_transition(Manager, callback))
        /\ calls' = NoCalls
        /\ StatusRest

\* The status manager from the start of the process: state machines are
\* created, marked, and given callbacks, while time passes.
NextStatus ==
    \/ GetOrCreate(FactoryIds)
    \/ MarkStatus(FactoryIds)
    \/ OnTransition(FactoryIds)
    \/ OnAnyTransition
    \/ Tick(MaxTimeStatus, MaxTimeStatus)

SpecStatus == Init /\ [][NextStatus]_vars

\* Calls of handle_recovery for one factory, each reporting UP to PMS with
\* retry; an attempt is accepted, answered by an error, or raises.  An
\* attempt or a sleep that has begun ends.
NextPms ==
    \/ HandleRecovery(Tasks, OneFactory)
    \/ RecoveryStep
    \/ PmsAttempt(PmsOutcomes)
    \/ RecoveryRaise

SpecPms == Init /\ [][NextPms]_vars /\ WF_vars(PmsAttempt(PmsOutcomes))

\* MaxCalls calls of handle_recovery for one factory, one after another.
PmsCalls == 1..MaxCalls

NextBreaker ==
    \/ HandleRecovery(PmsCalls, OneFactory)
    \/ RecoveryStep
    \/ PmsAttempt(PmsAnswers)
    \/ RecoveryRaise

SpecBreaker == Init /\ [][NextBreaker]_vars

\* The event loop runs every task that is ready, a report to PMS ends, and
\* the recovery scan is started whenever it can be.
SpecHeartbeatFair ==
    /\ SpecHeartbeat
    /\ WF_vars(CheckAllRecoveries(Tasks))
    /\ WF_vars(RecoveryStep)
    /\ WF_vars(PmsAttempt(PmsAnswers))

-----------------------------------------------------------------------------
(* Properties of the sensor health store (specification Spec) *)

Failed(s) == s \in DOMAIN sensors /\ ~sensors[s].is_healthy

\* The age of a sensor's last heartbeat, as instants
Age(s) == now - Val(sensors[s].last_heartbeat).t

Listed(payload) == {payload.recoveredSensors[i] : i \in DOMAIN payload.recoveredSensors}

\* C1: every sensor whose status is FAILED has a failure reason and a failure
\* timestamp, whatever register, heartbeat, sensor-failure, timeout-scan and
\* restart operations came before.
C1_FailedHasReasonAndTimestamp ==
    \A s \in DOMAIN sensors :
        ~sensors[s].is_healthy =>
            /\ sensors[s].failure_reason # None
            /\ sensors[s].failure_timestamp # None

\* C2: a heartbeat for a FAILED sensor changes the sensor's last_heartbeat and
\* nothing else of the store: the sensor stays FAILED with the same failure
\* reason and failure timestamp.
C2_HeartbeatKeepsFailed ==
    [][\A s \in SensorIds :
          Failed(s) =>
              \A payload \in HeartbeatPayloads({s}, FactoryIds) :
                  (payload.sensorId = s /\ handle_heartbeat(payload)) =>
                      /\ sensors' = [sensors EXCEPT ![s].last_heartbeat =
                                        sensors'[s].last_heartbeat]
                      /\ UNCHANGED <<sensors_order, factory_sensors,
                                     failed_sensors>>]_vars

\* A FAILED sensor whose last heartbeat came after the failure.
C2_Witness ==
    \E s \in DOMAIN sensors :
        /\ ~sensors[s].is_healthy
        /\ sensors[s].last_heartbeat # None
        /\ Val(sensors[s].last_heartbeat).t > Val(sensors[s].failure_timestamp).t

\* C4: a timeout scan leaves a healthy sensor whose age equals the timeout
\* healthy, and fails every healthy sensor whose age is above the timeout.
C4_StrictTimeout ==
    [][CheckTimeouts =>
          \A s \in DOMAIN sensors :
              (sensors[s].is_healthy /\ sensors[s].last_heartbeat # None) =>
                  /\ Age(s) = heartbeat_timeout => sensors'[s].is_healthy
                  /\ Age(s) > heartbeat_timeout => ~sensors'[s].is_healthy]_vars

\* C5: in every state, a timeout scan returns exactly the ids of the sensors
\* it newly fails, changes no sensor without a heartbeat and no FAILED sensor,
\* and a second scan at the same clock returns [] and changes nothing.
C5_ScanReturnsNewlyFailed ==
    LET r == check_timeouts(Store, now)
        again == check_timeouts(r.st, now)
    IN  /\ ~r.raised
        /\ {r.ret[i] : i \in DOMAIN r.ret} =
               {s \in DOMAIN sensors : sensors[s].is_healthy /\ ~r.st.sensors[s].is_healthy}
        /\ \A s \in DOMAIN sensors :
               (sensors[s].last_heartbeat = None \/ ~sensors[s].is_healthy) =>
                   r.st.sensors[s] = sensors[s]
        /\ ~again.raised /\ again.ret = <<>> /\ again.st = r.st

\* C6: a restart of factory f listing ids recovers only listed sensors that
\* belong to f: every other sensor keeps its status, reason and timestamp.
C6_RecoverOnlyOwnFactory ==
    [][\A payload \in RestartPayloads(SensorIds, FactoryIds) :
          handle_factory_restart(payload) =>
              \A s \in DOMAIN sensors :
                  (s \notin Listed(payload) \/ sensors[s].factory_id # payload.factoryId)
                      => sensors'[s] = sensors[s]]_vars

-----------------------------------------------------------------------------
(* Properties of both sensor stores (specification SpecStores) *)

Overridden(s) == s \in DOMAIN manual_failures /\ now < manual_failures[s]

\* A step that takes sensor s out of FAILED in the sensor health store is a
\* restart that lists s.
RecoveredByRestartOnly ==
    \A s \in DOMAIN sensors :
        (~sensors[s].is_healthy /\ sensors'[s].is_healthy) =>
            \E payload \in RestartPayloads(OneSensor, OneFactory) :
                s \in Listed(payload) /\ handle_factory_restart(payload)

-----------------------------------------------------------------------------
(* Properties of the factory health aggregation (specification SpecAgg) *)

\* The number of sensors of factory f, and of its sensors that are OK.
Total(f) == Cardinality(sm_factory_sensors[f])
OkCount(f) == Cardinality({s \in sm_factory_sensors[f] : sensor_statuses[s] = "OK"})

\* C7: the status derived for a factory with total >= 1 sensors, ok of them
\* OK, is OPERATIONAL iff 100*ok >= 80*total, DEGRADED iff 50*total <= 100*ok
\* < 80*total, CRITICAL iff 20*total <= 100*ok < 50*total, DOWN iff 100*ok <
\* 20*total; with 20 sensors, 16 OK give OPERATIONAL, 15 and 10 DEGRADED, 9
\* CRITICAL.  The status written and reported is the derived one.
C7_StatusByOkShare ==
    \A f \in DOMAIN sm_factory_sensors :
        LET health == Val(get_factory_health(Monitor, f))
            ok == OkCount(f)
            total == Total(f)
        IN  /\ get_factory_health(Monitor, f) # None
            /\ health.ok_sensors = ok /\ health.total_sensors = total
            /\ health.status = "OPERATIONAL" <=> 100 * ok >= 80 * total
            /\ health.status = "DEGRADED" <=>
                   (50 * total <= 100 * ok /\ 100 * ok < 80 * total)
            /\ health.status = "CRITICAL" <=>
                   (20 * total <= 100 * ok /\ 100 * ok < 50 * total)
            /\ health.status = "DOWN" <=> 100 * ok < 20 * total
            /\ (total = 20 /\ ok = 16) => health.status = "OPERATIONAL"
            /\ (total = 20 /\ ok \in {15, 10}) => health.status = "DEGRADED"
            /\ (total = 20 /\ ok = 9) => health.status = "CRITICAL"
            /\ \A h \in calls.update_factory_health : h = health
            /\ \A e \in calls.status_change : e.new = health.status

\* The health of a factory of 20 sensors, 16 of them OK and some of the
\* others WARNING, has been computed and reported as OPERATIONAL.
C7_Witness ==
    \E h \in calls.update_factory_health :
        /\ h.total_sensors = 20 /\ h.ok_sensors = 16 /\ h.warning_sensors > 0
        /\ h.status = "OPERATIONAL"
        /\ previous_factory_statuses[h.factory_id] = "OPERATIONAL"

-----------------------------------------------------------------------------
(* Properties of the sensor monitor (specification SpecSM) *)

\* The status derived from the sensors a factory has now, if it has any.
DerivedStatus(sm, f) ==
    IF get_factory_health(sm, f) = None THEN None
    ELSE Some(Val(get_factory_health(sm, f)).status)

\* The status-change callbacks an operation made for factory f, and the
\* factories it wrote a health record for.
Emitted(r, f) == {e \in r.calls.status_change : e.factory_id = f}
Written(r) == {h.factory_id : h \in r.calls.update_factory_health}

\* Operation result r, which recomputed factory f from the state before it,
\* called back exactly on a difference and left the other factories alone.
ExactlyOnChange(r, f) ==
    /\ (Emitted(r, f) # {}) <=>
           (DerivedStatus(r, f) # None
            /\ DerivedStatus(r, f) # Get(previous_factory_statuses, f))
    /\ \A e \in Emitted(r, f) :
           /\ e.previous = Get(previous_factory_statuses, f)
           /\ Some(e.new) = DerivedStatus(r, f)
    /\ (f \in Written(r)) <=> (Emitted(r, f) # {})
    /\ DerivedStatus(r, f) # None =>
           Get(r.previous_factory_statuses, f) = DerivedStatus(r, f)
    /\ \A g \in FactoryIds \ {f} :
           /\ Emitted(r, g) = {} /\ g \notin Written(r)
           /\ Get(r.previous_factory_statuses, g) = Get(previous_factory_statuses, g)

\* Recomputing f right after r calls nothing, writes nothing, changes nothing.
QuietRecompute(r, f) ==
    update_factory_health([r EXCEPT !.calls = NoCalls], f) = [r EXCEPT !.calls = NoCalls]

\* C8: in every state, each operation that recomputes a factory's health (a
\* reading, an override, a timeout scan) invokes the status-change callback
\* and writes the health record exactly when the derived status differs from
\* the cached one (no cached status counts as a difference), and a
\* recomputation right after it invokes and writes nothing.
C8_CallbacksExactlyOnChange ==
    /\ \A reading_data \in ReadingPayloads(SensorIds, FactoryIds) :
           LET r == process_sensor_reading(Monitor, reading_data, now)
               f == reading_data.factory_id
           IN  IF reading_data.sensor_id = MissingId \/ f = MissingId
                  \/ reading_data.timestamp = "number"
               THEN r = Monitor
               ELSE ExactlyOnChange(r, f) /\ QuietRecompute(r, f)
    /\ \A f \in FactoryIds, s \in SensorIds, new_status \in SensorStatus, d \in Durations :
           LET r == update_sensor_status(Monitor, f, s, new_status, d, now)
           IN  ExactlyOnChange(r, f) /\ QuietRecompute(r, f)
    /\ LET r == check_sensor_timeouts(Monitor, now)
       IN  \A f \in FactoryIds :
               /\ (Emitted(r, f) # {}) <=>
                      (Get(r.previous_factory_statuses, f) # Get(previous_factory_statuses, f))
               /\ (f \in Written(r)) <=> (Emitted(r, f) # {})
               /\ \A e \in Emitted(r, f) :
                      /\ e.previous = Get(previous_factory_statuses, f)
                      /\ Some(e.new) = DerivedStatus(r, f)
                      /\ e.previous # Some(e.new)
                      /\ QuietRecompute(r, f)

\* A callback was made for a factory that had a cached status, and in the
\* same state another factory keeps its cached status unreported.
C8_Witness ==
    /\ \E e \in calls.status_change : e.previous # None
    /\ \E g \in DOMAIN previous_factory_statuses :
           \A e \in calls.status_change : e.factory_id # g

\* C9: for every factory that has at least one sensor, the status cached (and
\* last emitted) for it is the status derived from its sensors' statuses.
C9_CachedIsDerived ==
    \A f \in DOMAIN sm_factory_sensors :
        sm_factory_sensors[f] # {} =>
            Get(previous_factory_statuses, f) = DerivedStatus(Monitor, f)

\* No sensor id is tracked under two factories.
OneFactoryPerSensor ==
    \A f \in DOMAIN sm_factory_sensors, g \in DOMAIN sm_factory_sensors :
        f # g => sm_factory_sensors[f] \cap sm_factory_sensors[g] = {}

\* The cached status is the derived one as long as no sensor id has been
\* reported under two factories.
CachedIsDerivedIfOneFactoryPerSensor == OneFactoryPerSensor => C9_CachedIsDerived

-----------------------------------------------------------------------------
(* Properties of the risk classification (specification SpecRisk) *)

\* The weighted score of an assessment, in hundredths.
WeightedScore(a) ==
    3 * a.factors.error_rate + 2 * a.factors.latency_trend
    + 3 * a.factors.heartbeat_stability + 2 * a.factors.resource_usage

\* C10: every assessment made has level HIGH iff its weighted score is at
\* least 0.7, MEDIUM iff it is at least 0.4 and below 0.7, LOW iff it is below
\* 0.4; and the level is the one reported to the persistence.
C10_RiskLevelByWeightedScore ==
    \A f \in DOMAIN risk_history : \A i \in DOMAIN risk_history[f] :
        LET a == risk_history[f][i]
        IN  /\ a.risk_level = "HIGH" <=> WeightedScore(a) >= 70
            /\ a.risk_level = "MEDIUM" <=> (WeightedScore(a) >= 40 /\ WeightedScore(a) < 70)
            /\ a.risk_level = "LOW" <=> WeightedScore(a) < 40
            /\ i = Len(risk_history[f]) =>
                   \A c \in calls.update_factory_status :
                       c.factory_id = f => c.risk_level = a.risk_level

\* An assessment whose weighted score is exactly 0.7, classified HIGH.
C10_Witness ==
    \E f \in DOMAIN risk_history : \E i \in DOMAIN risk_history[f] :
        /\ WeightedScore(risk_history[f][i]) = 70
        /\ risk_history[f][i].risk_level = "HIGH"

\* An assessment whose weighted score is exactly 0.4, classified MEDIUM.
ScoreFortyIsMedium ==
    \E f \in DOMAIN risk_history : \E i \in DOMAIN risk_history[f] :
        /\ WeightedScore(risk_history[f][i]) = 40
        /\ risk_history[f][i].risk_level = "MEDIUM"

\* The assessment should_preemptively_rebalance made of a factory.
LatestAssessment(f) == risk_history[f][Len(risk_history[f])]

\* C11: should_preemptively_rebalance(f) returns true iff the risk level it
\* assessed for f is HIGH and a factory other than f has status UP.
C11_RebalanceIffHighAndOtherUp ==
    \A c \in calls.should_rebalance :
        c.result <=>
            /\ LatestAssessment(c.factory_id).risk_level = "HIGH"
            /\ \E g \in DOMAIN factory_statuses :
                   g # c.factory_id /\ factory_statuses[g] = "UP"

\* A factory at HIGH risk that is UP itself while no other factory is UP:
\* no rebalance; and one at HIGH risk with another factory UP: rebalance.
C11_Witness ==
    \E c \in calls.should_rebalance :
        /\ LatestAssessment(c.factory_id).risk_level = "HIGH"
        /\ factory_statuses[c.factory_id] = "UP"
        /\ ~c.result

C11_WitnessRebalance ==
    \E c \in calls.should_rebalance : c.result

-----------------------------------------------------------------------------
(* Properties of the at-risk detector behind the consumer loop               *)
(* (specification SpecBus).  What the loop has consumed is the prefix of     *)
(* the bus up to offset.                                                     *)

IsReadingOf(i, s) ==
    /\ route(bus[i].topic, bus[i].message_type) = "readings"
    /\ bus[i].value.sensorId = s

IsFailureOf(i, s) ==
    /\ route(bus[i].topic, bus[i].message_type) = "sensor-failure"
    /\ bus[i].value.sensorId = s

IsRestartOf(i, s) ==
    /\ route(bus[i].topic, bus[i].message_type) = "restart"
    /\ \E k \in DOMAIN bus[i].value.recoveredSensors :
           bus[i].value.recoveredSensors[k] = s

\* The last of the first i records that reset sensor s (0: none did).
LastReset(s, i) ==
    LET resets == {j \in 1..i : IsRestartOf(j, s)}
    IN  IF resets = {} THEN 0 ELSE CHOOSE j \in resets : \A k \in resets : k <= j

\* The readings of sensor s among the first i records since its last reset.
ReadingsSince(s, i) ==
    LET from == LastReset(s, i)
        positions == SortedSeq({j \in (from + 1)..i : IsReadingOf(j, s)})
    IN  [k \in DOMAIN positions |-> Val(bus[positions[k]].value.reading)]

\* Readings k-2, k-1 and k of q are all below the listener's threshold.
ThreeLowsEndAt(q, k) ==
    k >= 3 /\ q[k] < 70 /\ q[k - 1] < 70 /\ q[k - 2] < 70

HasThreeLows(q) == \E k \in DOMAIN q : ThreeLowsEndAt(q, k)

\* The last (at most) five elements of q.
LastFive(q) == SubSeq(q, IF Len(q) > 5 THEN Len(q) - 4 ELSE 1, Len(q))

\* C12: a sensor is at risk iff, since its last reset, some reading was the
\* third low reading in a row: the flag is set at the first such reading
\* and stays set under every further reading, low or not, until a reset,
\* which removes the tracker.
C12_AtRiskLatchedUntilReset ==
    \A s \in SensorIds :
        LET q == ReadingsSince(s, offset)
        IN  /\ s \in DOMAIN sensor_risk_tracking <=> q # <<>>
            /\ s \in DOMAIN sensor_risk_tracking =>
                   /\ sensor_risk_tracking[s].is_at_risk <=> HasThreeLows(q)
                   /\ sensor_risk_tracking[s].low_reading_count >= 3 =>
                          sensor_risk_tracking[s].is_at_risk

\* A sensor still at risk after a reading that is not low ended the run.
C12_Witness ==
    \E s \in DOMAIN sensor_risk_tracking :
        /\ sensor_risk_tracking[s].is_at_risk
        /\ sensor_risk_tracking[s].low_reading_count = 0
        /\ Len(ReadingsSince(s, offset)) > 3

\* The consumed readings at which a notification for s is due: the first
\* third-low-in-a-row since the sensor's last reset.
PublishPoints(s) ==
    {i \in 1..offset :
        /\ IsReadingOf(i, s)
        /\ LET q == ReadingsSince(s, i)
           IN  /\ ThreeLowsEndAt(q, Len(q))
               /\ ~HasThreeLows(SubSeq(q, 1, Len(q) - 1))}

NotificationsOf(s) == SelectSeq(at_risk_topic, LAMBDA n : n.sensorId = s)

NotifiedAgainAfterReset ==
    \E s \in SensorIds : Len(NotificationsOf(s)) = 2

\* The consumer has just handled a restart that lists s.
JustRestarted(s) == offset >= 1 /\ IsRestartOf(offset, s)

RestoredAndUntracked(s) ==
    /\ s \in DOMAIN sensors =>
           /\ sensors[s].is_healthy
           /\ sensors[s].failure_reason = None
           /\ sensors[s].failure_timestamp = None
           /\ s \notin failed_sensors
    /\ s \notin DOMAIN sensor_risk_tracking

\* The step publishes a notification only for a reading that is the third
\* of three low readings in a row which all came after the last reset.
PublishesOnThreeNewLows ==
    at_risk_topic' # at_risk_topic =>
        /\ Len(at_risk_topic') = Len(at_risk_topic) + 1
        /\ LET s == at_risk_topic'[Len(at_risk_topic')].sensorId
               q == ReadingsSince(s, offset')
           IN  IsReadingOf(offset', s) /\ ThreeLowsEndAt(q, Len(q))

\* C14: once the loop has handled a restart that lists a registered sensor,
\* also one that a sensor-failure event had marked FAILED, the sensor is
\* healthy with failure reason and timestamp cleared and has no risk
\* tracker (it is not at risk); and a notification is published only at
\* the third of three low readings in a row that followed the restart.
C14_RestartClearsFailureAndRisk ==
    /\ [](\A s \in SensorIds : JustRestarted(s) => RestoredAndUntracked(s))
    /\ [][PublishesOnThreeNewLows]_vars

\* A registered sensor that was at risk, was then marked FAILED by a
\* sensor-failure event, and has just been listed by a restart.
C14_Witness ==
    \E s \in DOMAIN sensors :
        /\ JustRestarted(s)
        /\ \E j \in 1..(offset - 1) :
               /\ IsFailureOf(j, s)
               /\ LastReset(s, offset - 1) < j
               /\ HasThreeLows(ReadingsSince(s, j))
        /\ RestoredAndUntracked(s)

-----------------------------------------------------------------------------
(* Properties of two concurrent restart handlers (specification SpecRace) *)

BothRestartsDone ==
    /\ DOMAIN restart_threads = RestartThreads
    /\ \A th \in RestartThreads : restart_threads[th].pc = "done"

\* The listed sensors that were FAILED when the restarts arrived (in
\* SpecRace every registered sensor was).
ListedFailed ==
    {s \in DOMAIN sensors :
        \E th \in DOMAIN restart_threads : s \in Listed(restart_threads[th].payload)}

\* C15: when both restart handlers have returned, the recovered counts of
\* the two calls sum to the number of listed FAILED sensors (each is
\* recovered exactly once).
C15_EachSensorRecoveredOnce ==
    BothRestartsDone =>
        restart_threads["mqtt"].recovered_count
            + restart_threads["kafka"].recovered_count = Cardinality(ListedFailed)

\* When both handlers have returned, the stores are as one restart leaves
\* them: every listed sensor healthy and cleared, none of them tracked.
BothRestartsLeaveSingleRestartState ==
    BothRestartsDone =>
        \A s \in ListedFailed :
            /\ sensors[s].is_healthy
            /\ sensors[s].failure_reason = None
            /\ sensors[s].failure_timestamp = None
            /\ s \notin failed_sensors
            /\ s \notin DOMAIN sensor_risk_tracking

-----------------------------------------------------------------------------
(* Properties of the failover manager (specifications SpecFailover and       *)
(* SpecBackup)                                                               *)

IsTrigger(t) == tasks[t].op = "trigger_failover"
IsRebalance(t) == tasks[t].op = "preemptive_rebalance"
InFlight(t) == tasks[t].pc # "done"

Rejected(frame) ==
    /\ frame.pc = "done"
    /\ frame.returned = Some([success |-> FALSE,
                              message |-> "Failover already in progress"])

\* The step is a call of op for a factory for which a call of one of ops
\* is in flight.
IssuedWhileInFlight(t, op, ops) ==
    /\ t \notin DOMAIN tasks /\ t \in DOMAIN tasks'
    /\ tasks'[t].op = op
    /\ \E u \in DOMAIN tasks :
           /\ InFlight(u) /\ tasks[u].op \in ops
           /\ tasks[u].factory_id = tasks'[t].factory_id

\* The step leaves events, PMS, statuses, callbacks and the set alone.
NoFailoverEffect ==
    /\ UNCHANGED <<failover_events, pms_status, factory_statuses, active_failovers>>
    /\ calls'.failover_callbacks = <<>>
    /\ calls'.update_factory_status = {}

RejectsSecondTrigger ==
    \A t \in Tasks :
        IssuedWhileInFlight(t, "trigger_failover", {"trigger_failover"}) =>
            Rejected(tasks'[t]) /\ NoFailoverEffect

\* C16: no two trigger_failover calls of one factory are in flight at once;
\* a trigger issued while another of the same factory is in flight returns
\* the already-in-progress result at once and appends no event, contacts
\* no PMS, changes no status, invokes no callback and leaves the factory in
\* active_failovers.
C16_OneFailoverPerFactory ==
    /\ [](\A t, u \in DOMAIN tasks :
             (t # u /\ IsTrigger(t) /\ IsTrigger(u) /\ InFlight(t) /\ InFlight(u))
                 => tasks[t].factory_id # tasks[u].factory_id)
    /\ [][RejectsSecondTrigger]_vars

\* A trigger rejected while the first trigger of the factory waits for PMS.
C16_Witness ==
    \E t, u \in DOMAIN tasks :
        /\ IsTrigger(t) /\ Rejected(tasks[t])
        /\ IsTrigger(u) /\ tasks[u].pc = "await_pms"
        /\ tasks[t].factory_id = tasks[u].factory_id
        /\ tasks[u].factory_id \in active_failovers

\* C17: active_failovers holds exactly the factories of the triggers in
\* flight: a trigger that inserted its factory has removed it when it has
\* returned (PMS accepted, every retry failed, or a step raised), the set
\* is empty when no trigger is in flight, and it never holds more entries
\* than there are factories.
C17_ActiveFailoversAreInFlight ==
    /\ active_failovers =
           {tasks[t].factory_id : t \in {u \in DOMAIN tasks : IsTrigger(u) /\ InFlight(u)}}
    /\ Cardinality(active_failovers) <= NumFactories

\* Two triggers have returned, one because a step raised and one after all
\* retries failed, and the set is empty.
C17_Witness ==
    /\ active_failovers = {}
    /\ \E t, u \in DOMAIN tasks :
           /\ IsTrigger(t) /\ ~InFlight(t) /\ tasks[t].raised
           /\ IsTrigger(u) /\ ~InFlight(u) /\ tasks[u].result # None
           /\ ~Val(tasks[u].result).success

\* The statements of trigger_failover in program order.
TriggerOrder ==
    <<"log", "select", "log_backup", "pms", "await_pms", "status", "persist",
      "callbacks", "return", "finally", "done">>

Rank(pc) == CHOOSE i \in DOMAIN TriggerOrder : TriggerOrder[i] = pc

\* A trigger that was not rejected and has not raised.
Proceeding(t) ==
    IsTrigger(t) /\ ~Rejected(tasks[t]) /\ ~tasks[t].raised

EventLogged(frame) ==
    \E i \in DOMAIN failover_events :
        failover_events[i] = [factory_id |-> frame.factory_id,
                              reason |-> frame.reason, target_factory |-> None]

MarkedDown(f) == f \in DOMAIN factory_statuses /\ factory_statuses[f] = "DOWN"

\* What a proceeding trigger has done by the time it is at its position.
DoneSoFar(t) ==
    LET frame == tasks[t]
    IN  /\ Rank(frame.pc) > Rank("log") => EventLogged(frame)
        /\ Rank(frame.pc) <= Rank("select") => frame.backup = None
        /\ frame.attempt >= 1 <=> Rank(frame.pc) >= Rank("await_pms")
        /\ frame.result # None <=> Rank(frame.pc) >= Rank("status")
        /\ (Rank(frame.pc) > Rank("status") /\ InFlight(t)) =>
               MarkedDown(frame.factory_id)

\* PMS is told DOWN by a trigger that has logged its event and selected its
\* backup and has not yet set the status; the persisted status is written
\* after the in-memory one; the callbacks run after both, each with the
\* factory, the reason, the backup and the PMS result.
InOrder ==
    \A t \in DOMAIN tasks : Proceeding(t) /\ t \in DOMAIN tasks' =>
        LET frame == tasks[t]
            f == frame.factory_id
        IN  /\ (frame.pc = "await_pms" /\ tasks'[t].pc = "status"
                  /\ Val(tasks'[t].result).success) =>
                    /\ pms_status'[f] = "DOWN"
                    /\ EventLogged(frame)
            /\ (frame.pc = "persist" /\ tasks'[t].pc = "callbacks") =>
                    /\ MarkedDown(f)
                    /\ calls'.update_factory_status =
                           {[factory_id |-> f, status |-> "DOWN", risk_level |-> "LOW"]}
            /\ (frame.pc = "callbacks" /\ tasks'[t].pc = "return") =>
                    /\ MarkedDown(f)
                    /\ Len(calls'.failover_callbacks) = Len(on_failover_callbacks)
                    /\ \A i \in DOMAIN on_failover_callbacks :
                           calls'.failover_callbacks[i] =
                               [callback |-> on_failover_callbacks[i],
                                factory_id |-> f, reason |-> frame.reason,
                                backup_factory |-> frame.backup,
                                result |-> Val(frame.result)]
            /\ tasks'[t].pc # frame.pc =>
                    \/ Rank(tasks'[t].pc) = Rank(frame.pc) + 1
                    \/ frame.pc = "select" /\ tasks'[t].pc = "pms"
                           /\ tasks'[t].backup = None
                    \/ tasks'[t].raised

\* C19: a trigger that is not rejected appends its event, then selects the
\* backup, then reports DOWN to PMS, then sets the in-memory and the
\* persisted status to DOWN, then invokes every callback with (factory,
\* reason, backup, PMS result); it does the last two whether PMS accepted
\* the report or every attempt failed.
C19_FailoverStepsInOrder ==
    /\ [](\A t \in DOMAIN tasks : Proceeding(t) => DoneSoFar(t))
    /\ [][InOrder]_vars

\* A trigger whose report PMS never accepted has marked the factory DOWN
\* and has just invoked both registered callbacks.
C19_Witness ==
    \E t \in DOMAIN tasks :
        /\ Proceeding(t) /\ tasks[t].pc = "return"
        /\ ~Val(tasks[t].result).success
        /\ MarkedDown(tasks[t].factory_id)
        /\ Len(calls.failover_callbacks) = MaxCallbacks

RejectsRebalanceWhileInFlight ==
    \A t \in Tasks :
        IssuedWhileInFlight(t, "preemptive_rebalance",
                            {"trigger_failover", "preemptive_rebalance"}) =>
            tasks'[t].pc = "done" /\ NoFailoverEffect

\* C20: a preemptive_rebalance issued while a failover or another rebalance
\* of the same factory is in flight is rejected, as a second trigger is.
C20_RebalanceGuardedLikeTrigger == [][RejectsRebalanceWhileInFlight]_vars

\* A preemptive_rebalance never invokes the failover callbacks and never
\* enters its factory in active_failovers.
RebalanceSkipsGuardAndCallbacks ==
    [][\A t \in DOMAIN tasks : (IsRebalance(t) /\ running = Some(t)) =>
           /\ calls'.failover_callbacks = <<>>
           /\ active_failovers' = active_failovers]_vars

\* The candidates of a failover of f: the UP factories other than f.
UpOthers(f) == {g \in DOMAIN factory_statuses : factory_statuses[g] = "UP" /\ g # f}

\* The risk rank the selection has just assessed for a candidate.
RiskRank(g) == risk_score(LatestAssessment(g).risk_level)

\* A trigger has just selected its backup.
JustSelected(t) ==
    /\ IsTrigger(t) /\ running = Some(t)
    /\ tasks[t].pc \in {"log_backup", "pms"}

\* C18: the backup a trigger selects is the first of the UP factories other
\* than f in ascending order of (risk rank, factory id), and none exactly
\* when there is no such factory.
C18_BackupFirstByRiskThenId ==
    \A t \in DOMAIN tasks : JustSelected(t) =>
        LET f == tasks[t].factory_id
        IN  IF UpOthers(f) = {} THEN tasks[t].backup = None
            ELSE /\ tasks[t].backup # None
                 /\ Val(tasks[t].backup) \in UpOthers(f)
                 /\ \A g \in UpOthers(f) :
                        \/ RiskRank(Val(tasks[t].backup)) < RiskRank(g)
                        \/ /\ RiskRank(Val(tasks[t].backup)) = RiskRank(g)
                           /\ Val(tasks[t].backup) <= g

\* The backup is an UP factory other than f of the least risk rank (the
\* first such in the status manager's order), none iff there is none.
BackupIsLeastRiskUpOther ==
    \A t \in DOMAIN tasks : JustSelected(t) =>
        LET f == tasks[t].factory_id
            candidates == backup_candidates(factory_statuses, factory_order, f)
        IN  IF UpOthers(f) = {} THEN tasks[t].backup = None
            ELSE /\ tasks[t].backup # None
                 /\ Val(tasks[t].backup) \in UpOthers(f)
                 /\ \A g \in UpOthers(f) :
                        RiskRank(Val(tasks[t].backup)) <= RiskRank(g)
                 /\ \A i, j \in DOMAIN candidates :
                        (candidates[j] = Val(tasks[t].backup) /\ i < j) =>
                            RiskRank(candidates[i]) > RiskRank(candidates[j])

-----------------------------------------------------------------------------
(* Recovery manager *)

\* C21: check(factory_id) returns true iff the factory is tracked, its
\* in-memory status is not UP and its persisted consecutive_healthy counter
\* is at least 5; it returns false for an untracked factory and for a
\* factory without a persisted document.
C21_CheckIffNotUpAndFiveHealthy ==
    \A c \in calls.check_recovery :
        c.result <=>
            /\ c.factory_id \in DOMAIN factory_statuses
            /\ factory_statuses[c.factory_id] # "UP"
            /\ c.factory_id \in DOMAIN factory_health
            /\ factory_health[c.factory_id].consecutive_healthy >= 5

\* check answers true for a factory that is not UP, and false for one that
\* is UP with five healthy heartbeats counted.
C21_Witness ==
    \E c \in calls.check_recovery :
        /\ c.result
        /\ factory_statuses[c.factory_id] \in {"DOWN", "DEGRADED"}

C21_WitnessUp ==
    \E c \in calls.check_recovery :
        /\ ~c.result
        /\ c.factory_id \in DOMAIN factory_health
        /\ factory_health[c.factory_id].consecutive_healthy >= 5

\* Heartbeat processing has just taken factory f from DOWN to UP, and the
\* recovery scan can still be called.
RecoveredByHeartbeat(f) ==
    /\ running = None
    /\ [factory_id |-> f, from |-> "DOWN", to |-> "UP"] \in calls.transitions
    /\ DOMAIN tasks # Tasks

\* The recovery event of f is logged and PMS has been called for it.
RecoveryReported(f) ==
    /\ \E i \in DOMAIN failover_events :
           failover_events[i] = [factory_id |-> f,
                                 reason |-> "Factory recovered from DOWN",
                                 target_factory |-> None]
    /\ \E t \in DOMAIN tasks :
           /\ tasks[t].op \in {"handle_recovery", "check_all_recoveries"}
           /\ tasks[t].factory_id = f
           /\ tasks[t].attempt >= 1

HeartbeatLeavesNothingToRecover ==
    \A f \in DOMAIN factory_health :
        factory_health[f].consecutive_healthy < recovery_consecutive_healthy_count

\* Task t is inside handle_recovery, called directly or by the scan.
Handling(t) ==
    /\ tasks[t].op \in {"handle_recovery", "check_all_recoveries"}
    /\ tasks[t].pc \in {"rec_mark_up", "rec_log", "rec_pms", "await_pms",
                        "rec_callbacks", "rec_return", "rec_finally"}

RecoveryRejected(frame) ==
    /\ frame.pc = "done"
    /\ frame.returned = Some([success |-> FALSE,
                              message |-> "Recovery already in progress"])

\* A handle_recovery issued while the factory is being recovered returns at
\* once and leaves statuses, counters, events, PMS and the set alone.
RejectsSecondRecovery ==
    \A t \in Tasks :
        (/\ t \notin DOMAIN tasks /\ t \in DOMAIN tasks'
         /\ tasks'[t].op = "handle_recovery"
         /\ \E u \in DOMAIN tasks :
                Handling(u) /\ tasks[u].factory_id = tasks'[t].factory_id) =>
            /\ RecoveryRejected(tasks'[t])
            /\ UNCHANGED <<factory_statuses, factory_health, failover_events,
                           pms_status, recovering_factories>>
            /\ calls'.update_factory_status = {}
            /\ calls'.recovery_callbacks = <<>>

\* C23: no two recoveries of one factory are in flight at once; a
\* handle_recovery issued while another of the same factory is in flight is
\* rejected without changing a status or a counter, appending an event or
\* notifying PMS; and recovering_factories holds exactly the factories of
\* the recoveries in flight, so that a recovery that inserted its factory
\* has removed it when it has returned, however it returned.
C23_OneRecoveryPerFactory ==
    /\ [](\A t, u \in DOMAIN tasks :
             (t # u /\ Handling(t) /\ Handling(u)) =>
                 tasks[t].factory_id # tasks[u].factory_id)
    /\ [][RejectsSecondRecovery]_vars
    /\ [](recovering_factories =
             {tasks[t].factory_id : t \in {u \in DOMAIN tasks : Handling(u)}})

\* A recovery rejected while the first recovery of the factory waits for
\* PMS.
C23_Witness ==
    \E t, u \in DOMAIN tasks :
        /\ RecoveryRejected(tasks[t])
        /\ Handling(u) /\ tasks[u].pc = "await_pms"
        /\ tasks[t].factory_id = tasks[u].factory_id
        /\ tasks[u].factory_id \in recovering_factories

\* A recovery has returned because a step raised, another after PMS
\* refused every attempt, and the set is empty.
C23_WitnessReleased ==
    /\ recovering_factories = {}
    /\ \E t, u \in DOMAIN tasks :
           /\ tasks[t].op = "handle_recovery" /\ tasks[t].pc = "done"
           /\ tasks[t].raised
           /\ tasks[u].op = "handle_recovery" /\ tasks[u].pc = "done"
           /\ tasks[u].result # None /\ ~Val(tasks[u].result).success

\* C24: after every completed heartbeat, timeout check and recovery
\* handling, no factory has both consecutive_healthy and missed_heartbeats
\* greater than zero.
C24_OneCounterAtMost ==
    \A f \in DOMAIN factory_health :
        ~(/\ factory_health[f].consecutive_healthy > 0
          /\ factory_health[f].missed_heartbeats > 0)

\* Heartbeats of a factory that timeouts had marked DOWN are being counted,
\* and the missed heartbeats are forgotten.
C24_Witness ==
    \E f \in DOMAIN factory_health :
        /\ factory_statuses[f] = "DOWN"
        /\ factory_health[f].consecutive_healthy > 1
        /\ factory_health[f].missed_heartbeats = 0

\* Timeouts after counted heartbeats: the healthy count is forgotten.
C24_WitnessMissed ==
    \E f \in DOMAIN factory_health :
        /\ factory_statuses[f] = "DOWN"
        /\ factory_health[f].consecutive_healthy = 0
        /\ factory_health[f].missed_heartbeats > missed_heartbeats_threshold

-----------------------------------------------------------------------------
(* PMS client *)

\* What the retry loop has done by the time it is where frame says.
RetryShape(frame) ==
    /\ frame.attempt <= 3
    /\ frame.delays \in {<<>>, <<500>>, <<500, 1000>>}
    /\ Len(frame.delays) =
           IF frame.sleeping THEN frame.attempt
           ELSE IF frame.attempt = 0 THEN 0 ELSE frame.attempt - 1
    /\ frame.result # None => ~frame.sleeping
    /\ (frame.result # None /\ ~Val(frame.result).success) =>
           frame.attempt = 3 /\ frame.last_error # None

\* The loop without what tells an error result from an exception.
Outcome(frame) ==
    [pc |-> frame.pc, attempt |-> frame.attempt, sleeping |-> frame.sleeping,
     delays |-> frame.delays,
     result |-> IF frame.result = None THEN None
                ELSE Some(Val(frame.result).success)]

ErrorLikeException(frame) ==
    (frame.pc = "await_pms" /\ ~frame.sleeping) =>
        Outcome(retry_after(frame, "error")) = Outcome(retry_after(frame, "raised"))

\* The report returns in the step in which PMS accepts an attempt, with
\* success; a report that returns in another step returns a failure.
ReturnsAtFirstSuccess ==
    \A t \in DOMAIN tasks :
        LET accepted == \E c \in calls'.pms_report : c.outcome = "accepted"
            returns == tasks[t].result = None /\ tasks'[t].result # None
        IN  (tasks[t].pc = "await_pms" /\ tasks'[t] # tasks[t]
                /\ ~tasks'[t].raised) =>
                /\ accepted => returns
                /\ returns => (Val(tasks'[t].result).success <=> accepted)
                /\ tasks'[t].attempt \in {tasks[t].attempt, tasks[t].attempt + 1}

\* C25: a PMS status report with retry makes at most 3 attempts, stops at
\* the first attempt that succeeds, waits 0.5 s, then 1 s, after the first
\* and the second failed attempt and not after the third, returns success
\* iff an attempt succeeded, treats an error result and an exception alike,
\* and always ends.
C25_RetryWithBackoff ==
    /\ [](\A t \in DOMAIN tasks :
             RetryShape(tasks[t]) /\ ErrorLikeException(tasks[t]))
    /\ [][ReturnsAtFirstSuccess]_vars
    /\ \A t \in Tasks :
           (t \in DOMAIN tasks /\ tasks[t].pc = "await_pms") ~>
               (t \in DOMAIN tasks /\ tasks[t].pc # "await_pms")

\* A report accepted at the third attempt, after both waits; and one that
\* failed three times, the last time by an exception.
C25_Witness ==
    \E t, u \in DOMAIN tasks :
        /\ tasks[t].result # None /\ Val(tasks[t].result).success
        /\ tasks[t].attempt = 3 /\ tasks[t].delays = <<500, 1000>>
        /\ tasks[u].result =
               Some([success |-> FALSE,
                     message |-> "All retries failed: PMS unavailable"])
        /\ tasks[u].delays = <<500, 1000>>

\* The step begins a report to PMS after reports have failed and none was
\* ever accepted.
ReportsAfterFailures(t) ==
    /\ t \in DOMAIN tasks /\ tasks[t].pc = "rec_pms"
    /\ tasks'[t].pc # "rec_pms"
    /\ pms_status = <<>>
    /\ Cardinality({u \in DOMAIN tasks :
                       /\ tasks[u].result # None
                       /\ ~Val(tasks[u].result).success}) >= 3

\* C26: after 3 consecutive failed PMS calls a status report issued within
\* the next 30 s returns {success: false, message: 'Circuit breaker open'}
\* without an attempt on PMS.
C26_CircuitOpensAfterThreeFailures ==
    [][\A t \in PmsCalls : ReportsAfterFailures(t) =>
           /\ tasks'[t].attempt = 0
           /\ tasks'[t].result = Some([success |-> FALSE,
                                       message |-> "Circuit breaker open"])]_vars

\* Three reports have failed, each after three attempts, and no report was
\* accepted; a fourth report is at its first attempt.
FourthReportAttempted ==
    /\ pms_status = <<>>
    /\ \E t \in DOMAIN tasks :
           /\ tasks[t].pc = "await_pms" /\ tasks[t].attempt = 1
           /\ Cardinality({u \in DOMAIN tasks :
                              /\ tasks[u].result # None
                              /\ ~Val(tasks[u].result).success}) = 3

-----------------------------------------------------------------------------
(* Ingestion loop *)

\* The fields the dispatch table requires of a record of each topic.
LacksRequiredField(msg) ==
    LET handler == route(msg.topic, msg.message_type)
        value == msg.value
    IN  CASE handler = "heartbeat" ->
                 \/ value.sensorId = MissingId \/ value.factoryId = MissingId
                 \/ value.timestamp = NoTimestamp
          [] handler = "readings" ->
                 \/ value.sensorId = MissingId \/ value.factoryId = MissingId
                 \/ value.reading = None
          [] handler = "sensor-failure" ->
                 value.sensorId = MissingId \/ ~value.reason.present
          [] handler = "restart" -> value.factoryId = MissingId
          [] OTHER -> FALSE

Malformed(msg) ==
    \/ msg.json # "object"
    \/ route(msg.topic, msg.message_type) = "unhandled"
    \/ LacksRequiredField(msg)

\* The loop has taken the next record off the bus.
Consumed == offset' = offset + 1

\* C27: a record whose payload does not decode, is no object, lacks a
\* required field or has an unknown topic leaves the sensor health store
\* and the risk trackers unchanged, and the loop goes on polling.
C27_MalformedRecordsAreDropped ==
    [][(Consumed /\ Malformed(bus[offset + 1])) =>
           /\ UNCHANGED <<healthVars, riskVars>>
           /\ listener_polls(loop_tasks', kafka_clients')]_vars

\* What does hold: a record that does not decode, is no object, has an
\* unknown topic or lacks a sensor id, or a heartbeat or reading that lacks
\* its factory id or its reading, is dropped; and no record ends the loop.
DroppedWithoutEffect ==
    [][Consumed =>
           LET msg == bus[offset + 1]
               handler == route(msg.topic, msg.message_type)
           IN  /\ listener_polls(loop_tasks', kafka_clients')
               /\ (\/ msg.json # "object"
                   \/ handler = "unhandled"
                   \/ handler # "restart" /\ msg.value.sensorId = MissingId
                   \/ handler = "heartbeat" /\ msg.value.factoryId = MissingId
                   \/ handler = "readings" /\ msg.value.reading = None) =>
                      UNCHANGED <<healthVars, riskVars>>]_vars

\* The listener has seen a bus error and has not been stopped.
BusErrorSeen ==
    /\ "listener" \in DOMAIN loop_tasks
    /\ loop_tasks["listener"].bus_error # "none"
    /\ kafka_clients["listener"].running

\* The listener polls again after a wait of 5 s and a reconnect, or it has
\* been stopped.
ResumedAfterBusError ==
    /\ "listener" \in DOMAIN loop_tasks
    /\ \/ ~kafka_clients["listener"].running
       \/ /\ loop_tasks["listener"].pc = "poll"
          /\ loop_tasks["listener"].waited = 5000
          /\ loop_tasks["listener"].reconnected

\* C28: no bus error ends the ingestion loop while it has not been stopped,
\* and after a bus error the loop waits 5 s, reconnects and polls again.
C28_ResumesAfterBusError ==
    /\ []("listener" \in DOMAIN loop_tasks =>
             (loop_tasks["listener"].pc = "stopped" =>
                  ~kafka_clients["listener"].running))
    /\ (BusErrorSeen ~> ResumedAfterBusError)

\* poll has raised KafkaException: the loop is over though nobody stopped
\* the listener, and records are left on the bus.
ListenerEndedByBusError ==
    /\ "listener" \in DOMAIN loop_tasks
    /\ loop_tasks["listener"].pc = "stopped"
    /\ loop_tasks["listener"].bus_error = "raised"
    /\ kafka_clients["listener"].running
    /\ offset < Len(bus)

-----------------------------------------------------------------------------
(* The loops of main.py *)

\* The steps of a supervisor tick, in their order.
SixSteps ==
    <<"timeout_scan", "fault_detection", "risk_prediction",
      "preemptive_rebalance", "recovery_scan", "manual_override_expiry">>

\* The step is a tick of the monitoring loop.
IsTick ==
    /\ "monitoring" \in DOMAIN loop_tasks
    /\ loop_tasks["monitoring"].pc = "suspended"
    /\ loop_tasks'["monitoring"].pc = "suspended"
    /\ calls'.tick # <<>>

\* C29: every tick of the monitoring loop performs the timeout scan, the
\* per-factory fault detection, the per-factory risk prediction, the
\* preemptive-rebalance triggers, the recovery scan and the manual-override
\* expiry, in this order: six operations, the first of which scans for
\* timeouts; it starts a recovery scan; and it leaves no manual override
\* that has expired.
C29_TickPerformsSixSteps ==
    [][IsTick =>
           /\ Len(calls'.tick) = Len(SixSteps)
           /\ calls'.tick[1] = "check_sensor_timeouts"
           /\ \E t \in DOMAIN tasks' : tasks'[t].op = "check_all_recoveries"
           /\ \A s \in DOMAIN manual_failures' : now < manual_failures'[s]]_vars

\* A tick has run, and the manual override of a sensor that expired is
\* still there.
TickLeftExpiredOverride ==
    /\ calls.tick = <<"check_sensor_timeouts">>
    /\ \E s \in DOMAIN manual_failures : now >= manual_failures[s]

\* C30: once the shutdown has begun, at which the bus is closed, nothing is
\* polled or processed and no tick runs; the first thing each loop does is
\* to end; and both loops end.
C30_ShutdownStopsBothLoops ==
    /\ [](shutdown_event =>
             /\ kafka_clients["consumer"].closed
             /\ calls.poll = {} /\ calls.tick = <<>>)
    /\ [][shutdown_event =>
             \A name \in DOMAIN loop_tasks :
                 loop_tasks'[name] # loop_tasks[name] =>
                     loop_tasks'[name].pc = "done"]_vars
    /\ (shutdown_event ~>
            \A name \in DOMAIN loop_tasks : loop_tasks[name].pc = "done")

\* Both loops have ended after a shutdown that found them at their sleep,
\* the consumer having processed a reading.
C30_Witness ==
    /\ shutdown_event
    /\ \A name \in {"consumer", "monitoring"} :
           /\ loop_tasks[name].pc = "done"
           /\ loop_tasks[name].started /\ loop_tasks[name].cancelled
    /\ last_reading_times # <<>>

\* What does hold of consume_loop: after a KafkaError it sleeps 5 s and
\* begins its next run by connecting again.
ConsumerReconnects ==
    [][("consumer" \in DOMAIN loop_tasks
          /\ loop_tasks["consumer"].waited = 5000
          /\ loop_tasks'["consumer"] # loop_tasks["consumer"]
          /\ UNCHANGED shutdown_event) =>
              \/ loop_tasks'["consumer"].pc = "done"
              \/ loop_tasks'["consumer"].reconnected]_vars

-----------------------------------------------------------------------------
(* Manual overrides of the sensor monitor (specification SpecSM) *)

\* A reading for sensor s that process_sensor_reading does not drop.
ReadingsOf(s) ==
    {reading_data \in ReadingPayloads(SensorIds, FactoryIds) :
        /\ reading_data.sensor_id = s
        /\ reading_data.factory_id # MissingId
        /\ reading_data.timestamp = "iso"}

\* A manual override of s is recorded and its expiry time has passed.
Expired(s) == s \in DOMAIN manual_failures /\ now >= manual_failures[s]

\* A reading for s processed before the override of s expires leaves the
\* status and the override of s as they are; one processed when no unexpired
\* override is in force removes the override and gives s its own status.
ReadingsRespectOverride ==
    [][\A s \in SensorIds : \A reading_data \in ReadingsOf(s) :
           process_message(reading_data) =>
               IF Overridden(s)
               THEN /\ sensor_statuses'[s] = sensor_statuses[s]
                    /\ manual_failures'[s] = manual_failures[s]
               ELSE /\ sensor_statuses'[s] = ReadingStatus(reading_data.status)
                    /\ s \notin DOMAIN manual_failures']_vars

\* C31: after a manual override of sensor s to FAILED or WARNING, a reading
\* for s processed before the override expires leaves the status of s
\* unchanged; once the expiry time has passed, the next timeout scan removes
\* the override, and so does the next reading for s, which gives s the
\* status it carries.
C31_OverrideHoldsUntilExpiry ==
    [][\A s \in SensorIds :
           /\ \A reading_data \in ReadingsOf(s) :
                  process_message(reading_data) =>
                      IF Overridden(s)
                      THEN sensor_statuses'[s] = sensor_statuses[s]
                      ELSE /\ sensor_statuses'[s] = ReadingStatus(reading_data.status)
                           /\ s \notin DOMAIN manual_failures'
           /\ (CheckSensorTimeouts /\ Expired(s)) =>
                  s \notin DOMAIN manual_failures']_vars

\* The timeout scan leaves every override as it is, expired or not.
ScanKeepsOverrides ==
    [][CheckSensorTimeouts => manual_failures' = manual_failures]_vars

-----------------------------------------------------------------------------
(* Sensor-failure records (specification SpecCold) *)

\* The record the loop takes next is a sensor-failure record of a sensor.
IsFailureRecord(msg) ==
    /\ decode_and_route(msg) = "sensor-failure"
    /\ msg.value.sensorId # MissingId

\* C32: after the ingestion loop has handled a sensor-failure record for
\* sensor s, s is FAILED in the sensor health store, whether or not the
\* store knew s before.
C32_FailureRecordMarksFailed ==
    [][(Consumed /\ IsFailureRecord(bus[offset + 1])) =>
           LET s == bus[offset + 1].value.sensorId
           IN  /\ s \in DOMAIN sensors'
               /\ ~sensors'[s].is_healthy
               /\ s \in failed_sensors']_vars

\* What does hold: the record marks a sensor FAILED that a heartbeat has
\* registered, and leaves the store as it is for any other sensor.
FailureRecordMarksKnownSensor ==
    [][(Consumed /\ IsFailureRecord(bus[offset + 1])) =>
           LET s == bus[offset + 1].value.sensorId
           IN  IF s \in DOMAIN sensors
               THEN ~sensors'[s].is_healthy /\ s \in failed_sensors'
               ELSE UNCHANGED healthVars]_vars

\* The loop has handled a sensor-failure record for a sensor that no
\* heartbeat had registered, and the store still knows nothing of it.
FailureOfUnknownSensorIgnored ==
    /\ offset = 1 /\ IsFailureRecord(bus[1])
    /\ bus[1].value.sensorId \notin DOMAIN sensors
    /\ failed_sensors = {}

-----------------------------------------------------------------------------
(* The counters of a risk tracker (specification SpecBus) *)

\* The number of elements at the end of q that are all below the threshold.
RECURSIVE TrailingLows(_)
TrailingLows(q) ==
    IF q = <<>> \/ q[Len(q)] >= 70 THEN 0
    ELSE 1 + TrailingLows(SubSeq(q, 1, Len(q) - 1))

\* C33: for the readings a sensor's tracker has been given since it was
\* created (a reset removes it), low_reading_count is the number of most
\* recent consecutive readings strictly below the threshold, and
\* recent_readings holds the last five of them, or all if there are fewer,
\* in arrival order.
C33_CountsTrailingLowsAndKeepsLastFive ==
    \A s \in DOMAIN sensor_risk_tracking :
        LET q == ReadingsSince(s, offset)
        IN  /\ sensor_risk_tracking[s].low_reading_count = TrailingLows(q)
            /\ sensor_risk_tracking[s].recent_readings = LastFive(q)

\* A tracker that has been given six readings: the fifth, equal to the
\* threshold, reset the count, the sixth is low, and the first reading has
\* left recent_readings.
C33_Witness ==
    \E s \in DOMAIN sensor_risk_tracking :
        LET q == ReadingsSince(s, offset)
        IN  /\ Len(q) = 6 /\ q[4] < 70 /\ q[5] = 70 /\ q[6] < 70
            /\ sensor_risk_tracking[s].low_reading_count = 1
            /\ Len(sensor_risk_tracking[s].recent_readings) = 5

-----------------------------------------------------------------------------
(* The heartbeat monitor (specification SpecLegacy) *)

\* The last heartbeat of factory f is older than the timeout.
TimedOut(f) ==
    /\ f \in DOMAIN last_heartbeat_times
    /\ now - last_heartbeat_times[f] > heartbeat_timeout_seconds

\* The status of f is DOWN.
IsDown(f) == f \in DOMAIN factory_statuses /\ factory_statuses[f] = "DOWN"

\* C34: a timeout check that finds factory f timed out counts one more
\* missed heartbeat and forgets the healthy ones; f is then DOWN if the count
\* has reached 3, DEGRADED if it has not and f was UP, and as before
\* otherwise; the timeout callbacks are called once with the count at the
\* check that takes f to DOWN, and at no other check.  A step that takes f
\* out of DOWN is the fifth heartbeat counted since the last such check, and
\* takes f to UP.  A factory that stays timed out gets DOWN.
C34_TimeoutsDegradeThenDownOnce ==
    /\ [][\A f \in OneFactory :
            LET status == get_or_create(factory_statuses, f)[f]
                doc == GetOr(factory_health, f, NoDoc)
                missed == doc.missed_heartbeats + 1
            IN  /\ (CheckHeartbeatTimeouts /\ TimedOut(f)) =>
                       /\ factory_health'[f].missed_heartbeats = missed
                       /\ factory_health'[f].consecutive_healthy = 0
                       /\ factory_statuses'[f] =
                              IF missed >= 3 THEN "DOWN"
                              ELSE IF status = "UP" THEN "DEGRADED" ELSE status
                       /\ calls'.timeout_callbacks =
                              IF missed >= 3 /\ status # "DOWN"
                              THEN <<[factory_id |-> f,
                                      timeout_type |-> "missed_heartbeats",
                                      missed_count |-> missed]>>
                              ELSE <<>>
                /\ (CheckHeartbeatTimeouts /\ ~TimedOut(f)) =>
                       calls'.timeout_callbacks = <<>>
                /\ (f \in DOMAIN factory_health' /\
                    factory_health'[f].consecutive_healthy > doc.consecutive_healthy) =>
                       /\ ProcessFactoryHeartbeat({f})
                       /\ factory_health'[f].consecutive_healthy =
                              doc.consecutive_healthy + 1
                /\ (IsDown(f) /\ ~IsDown(f)') =>
                       /\ factory_statuses'[f] = "UP"
                       /\ ProcessFactoryHeartbeat({f})
                       /\ doc.consecutive_healthy = 4]_vars
    /\ \A f \in OneFactory : TimedOut(f) ~> (IsDown(f) \/ ~TimedOut(f))

\* A timeout check has found a factory timed out that earlier checks had
\* taken to DOWN: it has counted a fourth missed heartbeat and has called
\* no callback.
C34_Witness ==
    \E f \in OneFactory :
        /\ IsDown(f) /\ TimedOut(f)
        /\ factory_health[f].missed_heartbeats = 4
        /\ calls.timeout_callbacks = <<>> /\ calls.transitions = {}

\* The fifth heartbeat in a row has just taken a DOWN factory to UP.
C34_WitnessRecovered ==
    \E f \in OneFactory :
        /\ [factory_id |-> f, from |-> "DOWN", to |-> "UP"] \in calls.transitions
        /\ factory_health[f].consecutive_healthy = 0

-----------------------------------------------------------------------------
(* Repeated failover scans (specification SpecScan) *)

\* A failover of factory f has completed: trigger_failover has returned
\* its result for f.
FailoverCompleted(f) ==
    \E t \in DOMAIN tasks :
        LET frame == tasks[t]
        IN  /\ frame.op = "trigger_failover" /\ frame.factory_id = f
            /\ ~frame.raised /\ frame.returned # None
            /\ frame.pc \in {"done", "fscan"}

\* The failover events of factory f.
EventsOf(f) == SelectSeq(failover_events, LAMBDA e : e.factory_id = f)

\* C35: while a factory stays DOWN, once a failover of it has completed no
\* step appends a failover event for it or sends DOWN for it to PMS.
C35_OneFailoverPerDownEpisode ==
    [][\A f \in FactoryIds :
           FailoverCompleted(f) =>
               /\ EventsOf(f)' = EventsOf(f)
               /\ \A r \in calls'.pms_report :
                      ~(r.factory_id = f /\ r.status = "DOWN")]_vars

\* Two scans have each completed a failover of the same factory, which has
\* been DOWN all along: two events with the reason of the missed
\* heartbeats are logged for it.
FailedOverTwice ==
    \E f \in FactoryIds :
        /\ \A t \in Tasks : t \in DOMAIN tasks /\ tasks[t].pc = "done"
                            /\ IsScan(tasks[t]) /\ tasks[t].factory_id = f
                            /\ tasks[t].returned # None
        /\ Len(SelectSeq(EventsOf(f), LAMBDA e : e.target_factory = None)) = 2

-----------------------------------------------------------------------------
(* Failover and recovery of one factory interleaved (specification SpecBoth) *)

\* No call for factory f is under way.
NothingInFlight(f) ==
    \A t \in DOMAIN tasks : tasks[t].factory_id = f => tasks[t].pc = "done"

\* PMS has accepted every report at its first attempt.
EveryReportAccepted ==
    \A t \in DOMAIN tasks :
        /\ tasks[t].last_error = None
        /\ tasks[t].result # None => Val(tasks[t].result).success

\* C36: whenever no failover or recovery of factory f is under way and PMS
\* has accepted every report, the status PMS has been given last for f is
\* the in-memory status of f.
C36_PmsAgreesWithMemory ==
    \A f \in DOMAIN pms_status :
        (NothingInFlight(f) /\ EveryReportAccepted) =>
            pms_status[f] = factory_statuses[f]

\* A failover and a recovery of one factory have both completed, each with
\* its report accepted: PMS has been told UP last, and the factory is DOWN
\* in memory.
PmsUpMemoryDown ==
    \E f \in DOMAIN pms_status :
        /\ NothingInFlight(f) /\ EveryReportAccepted
        /\ \E t, u \in DOMAIN tasks :
               /\ tasks[t].op = "trigger_failover" /\ tasks[t].returned # None
               /\ tasks[u].op = "handle_recovery" /\ tasks[u].returned # None
               /\ tasks[t].factory_id = f /\ tasks[u].factory_id = f
        /\ pms_status[f] = "UP" /\ factory_statuses[f] = "DOWN"

\* A call that is the only one made leaves PMS and the memory in agreement.
CallsInTurnAgree ==
    \A f \in DOMAIN pms_status :
        (NothingInFlight(f) /\ EveryReportAccepted /\ Cardinality(DOMAIN tasks) = 1) =>
            pms_status[f] = factory_statuses[f]

-----------------------------------------------------------------------------
(* Status changes of preemptive_rebalance (specification SpecFailover) *)

\* Task t executes the mark_degraded of a preemptive_rebalance in this step.
RebalanceMarks(t) ==
    /\ t \in DOMAIN tasks /\ running = Some(t)
    /\ tasks[t].op = "preemptive_rebalance" /\ tasks[t].pc = "mark_degraded"
    /\ tasks'[t].pc = "pms"

\* C37: the status change of a preemptive_rebalance leaves a DOWN factory
\* DOWN, and the only transition it makes is UP to DEGRADED.
C37_RebalanceNeverImproves ==
    [][\A t \in Tasks :
           RebalanceMarks(t) =>
               LET f == tasks[t].factory_id
               IN  /\ (f \in DOMAIN factory_statuses /\ factory_statuses[f] = "DOWN")
                          => factory_statuses'[f] = "DOWN"
                   /\ calls'.transitions \subseteq
                          {[factory_id |-> f, from |-> "UP", to |-> "DEGRADED"]}]_vars

\* What it does: whatever the status was, the factory is DEGRADED after it.
RebalanceLeavesDegraded ==
    [][\A t \in Tasks :
           RebalanceMarks(t) =>
               factory_statuses'[tasks[t].factory_id] = "DEGRADED"]_vars

\* A preemptive_rebalance has just taken a DOWN factory to DEGRADED.
RebalanceRaisedDownFactory ==
    \E t \in DOMAIN tasks :
        /\ tasks[t].op = "preemptive_rebalance" /\ tasks[t].pc = "pms"
        /\ [factory_id |-> tasks[t].factory_id, from |-> "DOWN", to |-> "DEGRADED"]
               \in calls.transitions

-----------------------------------------------------------------------------
(* The sensor sets of the factories (specifications SpecSM and Spec) *)

\* The sets that d holds for different factories are disjoint.
Disjoint(d) ==
    \A f \in DOMAIN d, g \in DOMAIN d : f # g => d[f] \cap d[g] = {}

\* C38: no sensor id is in the sensor sets of two factories, in
\* SensorMonitor and in SensorHealthMonitor.
C38_SensorSetsDisjoint ==
    /\ Disjoint(sm_factory_sensors)
    /\ Disjoint(factory_sensors)

\* SensorMonitor tracks a sensor under two factories, each of which has had
\* a reading for it.
SensorUnderTwoFactories ==
    \E s \in DOMAIN last_reading_times :
        \E f \in DOMAIN sm_factory_sensors, g \in DOMAIN sm_factory_sensors :
            f # g /\ s \in sm_factory_sensors[f] /\ s \in sm_factory_sensors[g]

\* What holds of SensorHealthMonitor (specification Spec): a sensor is in
\* the set of the factory it was registered with, and in no other.
HealthStoreKeepsFirstFactory ==
    /\ Disjoint(factory_sensors)
    /\ \A s \in DOMAIN sensors :
           \A f \in DOMAIN factory_sensors :
               s \in factory_sensors[f] <=> sensors[s].factory_id = f

-----------------------------------------------------------------------------
(* The healthy-heartbeat counter (specification SpecLegacy) *)

\* C39: after every completed heartbeat and timeout check of the heartbeat
\* monitor, the consecutive_healthy counter of every factory is below
\* recovery_consecutive_healthy_count, and it is 0 when the factory is UP.
C39_HealthyCounterBelowThreshold ==
    \A f \in DOMAIN factory_health :
        /\ factory_health[f].consecutive_healthy
               < recovery_consecutive_healthy_count
        /\ (f \in DOMAIN factory_statuses /\ factory_statuses[f] = "UP") =>
               factory_health[f].consecutive_healthy = 0

\* The heartbeat that has just been processed was the fifth healthy one of
\* a DOWN factory: the factory is UP and its counter is back at 0.
FifthHeartbeatResetsCounter ==
    \E f \in DOMAIN factory_health :
        /\ [factory_id |-> f, from |-> "DOWN", to |-> "UP"] \in calls.transitions
        /\ factory_health[f].consecutive_healthy = 0

\* Four healthy heartbeats of a factory that is not UP are counted.
FourHealthyCounted ==
    \E f \in DOMAIN factory_health :
        /\ factory_statuses[f] # "UP"
        /\ factory_health[f].consecutive_healthy
               = recovery_consecutive_healthy_count - 1

-----------------------------------------------------------------------------
(* The transition histories (specification SpecStatus) *)

\* The history of f is a chain from UP to the current status.
IsChain(f) ==
    LET h == transition_history[f]
    IN  /\ \A i \in DOMAIN h :
               /\ h[i].from_status # h[i].to_status
               /\ h[i].from_status = IF i = 1 THEN "UP" ELSE h[i - 1].to_status
        /\ factory_statuses[f] = IF h = <<>> THEN "UP" ELSE h[Len(h)].to_status

\* The step is a call of transition_to on the state machine of f, and it
\* does what is said of it.
TransitionToAsSaid(f) ==
    \A c \in {calls'.transition_to[i] : i \in DOMAIN calls'.transition_to} :
        c.factory_id = f =>
            IF c.new_status = factory_statuses[f]
            THEN /\ ~c.returned
                 /\ transition_history'[f] = transition_history[f]
                 /\ factory_statuses'[f] = factory_statuses[f]
                 /\ calls'.transition_callbacks = <<>>
            ELSE /\ c.returned
                 /\ Len(transition_history'[f]) = Len(transition_history[f]) + 1
                 /\ SubSeq(transition_history'[f], 1, Len(transition_history[f]))
                        = transition_history[f]
                 /\ [i \in DOMAIN calls'.transition_callbacks |->
                        calls'.transition_callbacks[i].callback]
                        = on_transition_callbacks[f]

\* C40: the transition history of every state machine is a chain that
\* starts at UP and ends at the current status, with no entry from a status
\* to itself; transition_to with the current status returns false, appends
\* nothing and calls no callback; any other transition_to appends one entry
\* and calls each registered callback once.
C40_HistoryIsChain ==
    /\ [](\A f \in DOMAIN transition_history : IsChain(f))
    /\ [][\A f \in DOMAIN transition_history : TransitionToAsSaid(f)]_vars

\* A transition_to has appended a second entry and called two callbacks,
\* the first of which raises.
SecondTransitionNotifiedTwo ==
    \E f \in DOMAIN transition_history :
        /\ calls.transition_to # <<>>
        /\ calls.transition_to[1].factory_id = f
        /\ calls.transition_to[1].returned
        /\ Len(transition_history[f]) = MaxTransitions
        /\ Len(calls.transition_callbacks) = MaxCallbacks
        /\ calls.transition_callbacks[1].callback = "raising_callback"

\* A transition_to with the current status has been refused on a state
\* machine that has a history and a callback.
SameStatusRefused ==
    \E f \in DOMAIN transition_history :
        /\ calls.transition_to # <<>>
        /\ calls.transition_to[1].factory_id = f
        /\ ~calls.transition_to[1].returned
        /\ transition_history[f] # <<>>
        /\ on_transition_callbacks[f] # <<>>

====
